---- MODULE Spec2Model ----
(***************************************************************************)
(* A model of the EOS namespace client of reva:                            *)
(*   - eoshttp.Client      (GETFile, PUTFile, Head, buildFullURL)          *)
(*   - eosclientgrpc.Client (construction, namespace operations over       *)
(*                           gRPC, ACLs, xrdcopy Read/Write through the    *)
(*                           cache dir, the recycle bin)                   *)
(*   - alerting.Dispatcher  (DispatchAlerts)                               *)
(* All of it lives in src/pkg/siteacc/alerting/dispatcher.go.              *)
(***************************************************************************)
EXTENDS Integers, Sequences, FiniteSets, TLC

VARIABLES
    cl,      \* eoshttp.Client.cl : the shared *http.Client handle
    hc,      \* per caller: the state of its GETFile / PUTFile / Head call
    now,     \* wall clock, in ticks of 1/TicksPerSec second
    opt,     \* eosclientgrpc.Client.opt : the options after construction
    files,   \* the files present in Options.CacheDirectory
    xc,      \* per caller: the state of its Read / Write call
    xlog,    \* the Read / Write calls that have returned
    nextId,  \* source of fresh uuids / temp-file suffixes
    nc,      \* per caller: the state of its namespace call
    mgmAcl,  \* the sys.acl the MGM stores for the path
    ctor,    \* New (eosclientgrpc): the construction under way
    rl,      \* parseRecycleEntry: a line of recycle ls -m and what was made of it
    disp     \* Dispatcher.DispatchAlerts: the call under way

vars == <<cl, hc, now, opt, files, xc, xlog, nextId, nc, mgmAcl, ctor, rl, disp>>

httpVars == <<cl, hc, now>>
cacheVars == <<files, xc, xlog, nextId>>
nsVars == <<nc, mgmAcl>>
auxVars == <<ctor, rl, disp>>

(***************************************************************************)
(* Bounds of the model                                                     *)
(***************************************************************************)
MaxPathLen == 4      \* longest url_path, in tokens
MaxRedirs == 2       \* the nredirs counter (only logged) saturates here
MaxTries == 1        \* the ntries counter (only logged) saturates here
TicksPerSec == 2     \* clock resolution below the second
OpTimeout == 1       \* Options.OpTimeout, in seconds (360 by default)
StartWindow == 2     \* calls start during the first StartWindow ticks

MaxTick == StartWindow + (OpTimeout + 2) * TicksPerSec

\* net/http's defaultCheckRedirect: "stopped after 10 redirects"
MaxAutoRedirects == 10

HProcs == {"h1"}

\* the saturation of a counter
Min(a, b) == IF a < b THEN a ELSE b

(***************************************************************************)
(* url_path as a sequence of tokens. The two parameter names are single    *)
(* tokens; every other token is one character.                             *)
(***************************************************************************)
RUID == "eos.ruid"
GUID == "eos.guid"
Tokens == {"/", "?", "&", "=", RUID, GUID}

SeqsUpTo(S, n) == UNION {[1..k -> S] : k \in 0..n}

AllPaths == SeqsUpTo(Tokens, MaxPathLen)

\* strings.Index(s, tok) for a one-token needle: Go's 0-based index, -1 if absent
GoIndex(s, tok) ==
    IF \E i \in 1..Len(s) : s[i] = tok
    THEN (CHOOSE i \in 1..Len(s) : s[i] = tok /\ \A j \in 1..(i-1) : s[j] # tok) - 1
    ELSE -1

\* s[k] of Go (0-based) is s[k+1] here
GoAt(s, k) == s[k + 1]

\* The check of buildFullURL on one parameter name
MaliciousFirst(urlpath, name) ==
    LET p1 == GoIndex(urlpath, name)
    IN  p1 > 0 /\ GoAt(urlpath, p1 - 1) \in {"&", "?"}

\* Client.buildFullURL: "ok" or the kind of the error
buildFullURL(urlpath) ==
    IF MaliciousFirst(urlpath, RUID) THEN "PermissionDenied"
    ELSE IF MaliciousFirst(urlpath, GUID) THEN "PermissionDenied"
    ELSE "ok"

\* url_path contains "?eos.ruid=", "&eos.ruid=", "?eos.guid=" or "&eos.guid="
ContainsInjection(s) ==
    \E i \in 1..(Len(s) - 2) :
        /\ s[i] \in {"?", "&"}
        /\ s[i+1] \in {RUID, GUID}
        /\ s[i+2] = "="

(***************************************************************************)
(* Errors: the kind of errtypes error (or of the net/http error) returned  *)
(***************************************************************************)
Err(kind, msg) == [kind |-> kind, msg |-> msg]
NoResult == Err("none", "")
Success == Err("nil", "")

(***************************************************************************)
(* The HTTP server side and net/http's Client.Do                           *)
(***************************************************************************)
Statuses == {200, 201, 204, 206, 302, 307, 403, 404, 500}
RedirectStatuses == {302, 307}

\* What one request gets back: a response, or a transport error
ServerAnswers ==
    {[status |-> s, loc |-> FALSE, err |-> "none"] : s \in Statuses}
    \cup {[status |-> s, loc |-> TRUE, err |-> "none"] : s \in RedirectStatuses}
    \cup {[status |-> 0, loc |-> FALSE, err |-> e] : e \in {"timeout", "other"}}

Request(method, target, body) == [method |-> method, target |-> target, body |-> body]

\* net/http redirectBehavior, for a request whose body (if any) is a stream
\* that cannot be rewound (GetBody == nil)
redirectBehavior(req, status) ==
    IF status = 302
    THEN [follow |-> TRUE,
          method |-> IF req.method \in {"GET", "HEAD"} THEN req.method ELSE "GET"]
    ELSE [follow |-> ~req.body, method |-> req.method]

\* One request/response exchange inside c.cl.Do(req): either Do returns
\* (resp, err) to the caller, or the http.Client follows the redirect itself.
\* checkRedirect: the client in use has the ErrUseLastResponse policy.
ClientExchange(checkRedirect, cur, hops, a) ==
    IF a.err # "none" \/ a.status \notin RedirectStatuses
    THEN [returns |-> TRUE, d |-> a]
    ELSE LET rb == redirectBehavior(cur, a.status) IN
         IF ~rb.follow \/ ~a.loc \/ checkRedirect
         THEN [returns |-> TRUE, d |-> a]
         ELSE IF hops + 1 >= MaxAutoRedirects
         THEN [returns |-> TRUE, d |-> [a EXCEPT !.err = "other"]]
         ELSE [returns |-> FALSE, next |-> Request(rb.method, "fst", FALSE)]

\* Client.getRespError
getRespError(d) ==
    IF d.err = "timeout" THEN Err("Timeout", "net")
    ELSE IF d.err = "other" THEN Err("Transport", "net")
    ELSE IF d.status \in {0, 200, 201} THEN Success
    ELSE IF d.status = 403 THEN Err("PermissionDenied", "eos")
    ELSE IF d.status = 404 THEN Err("NotFound", "eos")
    ELSE Err("Internal", "eos")

\* os.IsTimeout
IsTimeout(e) == e.kind = "Timeout"

(***************************************************************************)
(* The eoshttp client                                                      *)
(***************************************************************************)
\* time.Now().Unix()
Unix(t) == t \div TicksPerSec

\* no response yet in this call
NoAnswer == [status |-> 0, loc |-> FALSE, err |-> "n/a"]

\* last: what the latest c.cl.Do of the call returned to the loop
IdleCall ==
    [pc |-> "idle", op |-> "none", urlpath |-> <<>>,
     req |-> Request("none", "none", FALSE), cur |-> Request("none", "none", FALSE),
     hops |-> 0, ntries |-> 0, nredirs |-> 0, timebegin |-> 0,
     startTick |-> 0, sent |-> FALSE, lastSendElapsed |-> 0, onlyRedir |-> TRUE,
     last |-> NoAnswer, result |-> NoResult]

\* New (eoshttp): the client is built with the ErrUseLastResponse policy
NewHTTPClient == [checkRedirect |-> TRUE, transport |-> "ctor"]

\* &http.Client{Transport: httptransport}
RedirectedClient == [checkRedirect |-> FALSE, transport |-> "passed"]

\* The entry of GETFile / PUTFile / Head up to the loop
EnterCall(p, op, urlpath) ==
    /\ hc[p].pc = "idle"
    /\ now <= StartWindow
    /\ LET built == buildFullURL(urlpath)
           c0 == [IdleCall EXCEPT !.op = op, !.urlpath = urlpath, !.startTick = now]
       IN  hc' = [hc EXCEPT ![p] =
                    IF built # "ok"
                    THEN [c0 EXCEPT !.pc = "done", !.result = Err(built, "Illegal malicious url")]
                    ELSE [c0 EXCEPT !.pc = "loop",
                                    !.req = Request(op, "mgm", FALSE),
                                    !.cur = Request(op, "mgm", FALSE),
                                    !.timebegin = Unix(now)]]
    /\ UNCHANGED <<cl, now, opt, auxVars, cacheVars, nsVars>>

GETFile(p, paths) ==
    /\ hc[p].pc = "idle"
    /\ \E urlpath \in paths : EnterCall(p, "GET", urlpath)

PUTFile(p, paths) ==
    /\ hc[p].pc = "idle"
    /\ \E urlpath \in paths : EnterCall(p, "PUT", urlpath)

ClientHead(p, paths) ==
    /\ hc[p].pc = "idle"
    /\ \E urlpath \in paths : EnterCall(p, "HEAD", urlpath)

\* a deadline test that allows one more second than the configured one
TimedOutOneSecondLate(c) == Unix(now) - c.timebegin > OpTimeout + 1

\* if time.Now().Unix()-timebegin > int64(c.opt.OpTimeout)
TimedOut(c) == Unix(now) - c.timebegin > OpTimeout

Return(c, e) == [c EXCEPT !.pc = "done", !.result = e, !.hops = 0, !.cur = c.req]

\* the bookkeeping of one request put on the wire
Sent(c, a) ==
    [c EXCEPT !.sent = TRUE,
              !.lastSendElapsed = now - c.startTick,
              !.onlyRedir = c.onlyRedir /\ a.err = "none" /\ a.status \in RedirectStatuses]

\* the loop follows the redirect itself: new client, new request
FollowRedirect(c, body) ==
    [c EXCEPT !.req = Request(c.op, "fst", body),
              !.cur = Request(c.op, "fst", body),
              !.hops = 0,
              !.nredirs = Min(c.nredirs + 1, MaxRedirs)]

Retry(c) == [c EXCEPT !.ntries = Min(c.ntries + 1, MaxTries), !.hops = 0, !.cur = c.req]

\* what the loop of GETFile does with what Do returned
GETFileHandle(c, d) ==
    IF d.status \in {302, 307}
    THEN IF ~d.loc
         THEN [call |-> Return(c, Err("NoLocation", "http")), swap |-> FALSE]
         ELSE [call |-> FollowRedirect(c, FALSE), swap |-> TRUE]
    ELSE LET e == getRespError(d) IN
         IF e # Success
         THEN IF IsTimeout(e)
              THEN [call |-> Retry(c), swap |-> FALSE]
              ELSE [call |-> Return(c, e), swap |-> FALSE]
         ELSE [call |-> Return(c, Success), swap |-> FALSE]

\* what the loop of PUTFile does with what Do returned
PUTFileHandle(c, d) ==
    IF d.status = 307
    THEN IF ~d.loc
         THEN [call |-> Return(c, Err("NoLocation", "http")), swap |-> FALSE]
         ELSE [call |-> FollowRedirect(c, TRUE), swap |-> TRUE]
    ELSE LET e == getRespError(d) IN
         IF e # Success
         THEN IF IsTimeout(e)
              THEN [call |-> Retry(c), swap |-> FALSE]
              ELSE [call |-> Return(c, e), swap |-> FALSE]
         ELSE [call |-> Return(c, Success), swap |-> FALSE]

\* what the loop of Head does with what Do returned: on success the loop goes on
HeadHandle(c, d) ==
    LET e == getRespError(d) IN
    IF e # Success
    THEN IF IsTimeout(e)
         THEN [call |-> Retry(c), swap |-> FALSE]
         ELSE [call |-> Return(c, e), swap |-> FALSE]
    ELSE [call |-> [c EXCEPT !.hops = 0, !.cur = c.req], swap |-> FALSE]

Handle(c, d) ==
    IF c.op = "GET" THEN GETFileHandle(c, d)
    ELSE IF c.op = "PUT" THEN PUTFileHandle(c, d)
    ELSE HeadHandle(c, d)

\* One pass of the for loop of a call: the deadline check, then c.cl.Do(req)
\* one exchange at a time, then the handling of what Do returned.
LoopTimeout(p) ==
    /\ hc[p].pc = "loop"
    /\ hc[p].hops = 0
    /\ TimedOut(hc[p])
    /\ hc' = [hc EXCEPT ![p] = [Return(hc[p], Err("Internal", "Timeout with url"))
                                  EXCEPT !.last = NoAnswer]]
    /\ UNCHANGED <<cl, now, opt, auxVars, cacheVars, nsVars>>

LoopDo(p, answers) ==
    /\ hc[p].pc = "loop"
    /\ hc[p].hops > 0 \/ ~TimedOut(hc[p])
    /\ \E a \in answers :
        LET c == Sent(hc[p], a)
            x == ClientExchange(hc[p].hops = 0 /\ cl.checkRedirect, c.cur, c.hops, a)
        IN  IF x.returns
            THEN LET h == Handle(c, x.d) IN
                 /\ hc' = [hc EXCEPT ![p] = [h.call EXCEPT !.last = x.d]]
                 /\ cl' = IF h.swap THEN RedirectedClient ELSE cl
            ELSE /\ hc' = [hc EXCEPT ![p] = [c EXCEPT !.cur = x.next, !.hops = c.hops + 1]]
                 /\ cl' = cl
    /\ UNCHANGED <<now, opt, auxVars, cacheVars, nsVars>>

\* http.Client.Timeout of the handle New builds (and of the one a redirect
\* installs): the field is left at its zero value, which means no timeout;
\* opt.RWTimeout is read nowhere
AttemptTimeout == 0

\* c.cl.Do(req) on a request the server never answers, under a caller's ctx
\* without deadline: Do returns a timeout error only if the handle has a
\* timeout; otherwise the goroutine stays in Do. The op_timeout_s test heads
\* the loop and is not reached from inside Do.
LoopBlocked(p) ==
    /\ hc[p].pc = "loop"
    /\ hc[p].hops = 0
    /\ ~TimedOut(hc[p])
    /\ LET c == [hc[p] EXCEPT !.sent = TRUE, !.lastSendElapsed = now - hc[p].startTick,
                              !.onlyRedir = FALSE, !.last = NoAnswer]
       IN hc' = [hc EXCEPT ![p] =
                    IF AttemptTimeout > 0 THEN Retry(c) ELSE [c EXCEPT !.pc = "blocked"]]
    /\ UNCHANGED <<cl, now, opt, auxVars, cacheVars, nsVars>>

\* the caller takes the result; the client is ready for the next call
Finish(p) ==
    /\ hc[p].pc = "done"
    /\ hc' = [hc EXCEPT ![p] = IdleCall]
    /\ UNCHANGED <<cl, now, opt, auxVars, cacheVars, nsVars>>

\* time passes; an exchange in progress is prompt
Tick ==
    /\ now < MaxTick
    /\ \A p \in HProcs : hc[p].hops = 0
    /\ now' = now + 1
    /\ UNCHANGED <<cl, hc, opt, auxVars, cacheVars, nsVars>>

(***************************************************************************)
(* The eosclientgrpc client: options and identity                          *)
(***************************************************************************)
Usernames == {"alice", "apache", "ghost"}

\* os/user.Lookup on the host's passwd database. Uid and Gid are decimal
\* strings, as in os/user.User.
Lookup(username) ==
    IF username = "alice" THEN [ok |-> TRUE, Uid |-> "1001", Gid |-> "100"]
    ELSE IF username = "apache" THEN [ok |-> TRUE, Uid |-> "48", Gid |-> "48"]
    ELSE IF username = "furano" THEN [ok |-> TRUE, Uid |-> "1002", Gid |-> "100"]
    ELSE [ok |-> FALSE, Uid |-> "", Gid |-> ""]

\* strconv.ParseUint(s, 10, 64) on the strings of the model
DecimalValue ==
    [s \in {"0", "48", "100", "750", "1001", "1002"} |->
        CASE s = "0" -> 0 [] s = "48" -> 48 [] s = "100" -> 100
          [] s = "750" -> 750 [] s = "1001" -> 1001 [] s = "1002" -> 1002]

ParseUint(s) ==
    IF s \in DOMAIN DecimalValue
    THEN [ok |-> TRUE, v |-> DecimalValue[s]]
    ELSE [ok |-> FALSE, v |-> 0]

\* the Options a caller may hand to New
ConfiguredOptions ==
    [ForceSingleUserMode : BOOLEAN,
     SingleUsername : {"", "apache", "alice"},
     Authkey : {"secret"}]

\* Options.init, the part on the single user
OptionsInit(o) ==
    IF o.ForceSingleUserMode /\ o.SingleUsername # ""
    THEN [o EXCEPT !.SingleUsername = "apache"]
    ELSE o

\* a lookup of the caller's own name, whatever the mode
getUnixUserOfCaller(o, username) == Lookup(username)

\* Client.getUnixUser
getUnixUser(o, username) ==
    Lookup(IF o.ForceSingleUserMode THEN o.SingleUsername ELSE username)

\* New (eosclientgrpc) returns a client only if its stat of "/eos" as user
\* "furano" went through, which needs that user resolved
Constructible(o) == getUnixUser(o, "furano").ok

ClientOptions == {o \in {OptionsInit(c) : c \in ConfiguredOptions} : Constructible(o)}

DefaultOptions == OptionsInit([ForceSingleUserMode |-> FALSE, SingleUsername |-> "", Authkey |-> "secret"])

(***************************************************************************)
(* New (eosclientgrpc): the construction of a client                       *)
(***************************************************************************)
\* the Options a caller may hand to New
NewOptions ==
    [ForceSingleUserMode : BOOLEAN,
     SingleUsername : {"", "apache", "alice", "ghost"},
     Authkey : {"secret", ""}]

\* configured: the options as the caller set them; log: the calls New has
\* made so far and how each ended; result: "client", or "nil" for return nil
IdleNew ==
    [pc |-> "idle", configured |-> DefaultOptions, log |-> <<>>, result |-> "none"]

\* New: opt.init(), c.opt = opt
NewClient(o) ==
    /\ ctor.pc = "idle"
    /\ ctor' = [IdleNew EXCEPT !.pc = "Dial", !.configured = o]
    /\ opt' = OptionsInit(o)
    /\ UNCHANGED <<rl, disp, httpVars, cacheVars, nsVars>>

\* the calls of New in their order, and what New does when a call went well
NewNextStep ==
    [Dial |-> "Ping", Ping |-> "GetFileInfoByPath", GetFileInfoByPath |-> "List",
     List |-> "getACLForPath", getACLForPath |-> "done"]

\* how a call of New may end. The three namespace calls are made for user
\* "furano" and fail at once when that user does not resolve.
NewOutcomes(step) ==
    IF step \in {"Dial", "Ping"} THEN {Success, Err("Transport", "rpc error")}
    ELSE IF ~getUnixUser(opt, "furano").ok THEN {Err("UnknownUser", "furano")}
    ELSE IF step = "GetFileInfoByPath"
    THEN {Success, Err("Transport", "rpc error"), Err("NotFound", "path")}
    ELSE IF step = "List" THEN {Success, Err("Transport", "rpc error")}
    ELSE {Success, Err("Transport", "rpc error"), Err("Internal", "nil response")}

\* one call of New: grpc.Dial, Ping, GetFileInfoByPath, List, getACLForPath.
\* Every one of them ends the construction with return nil when it fails;
\* after the last, prep is not nil and New returns c.
NewStep ==
    /\ ctor.pc \in DOMAIN NewNextStep
    /\ \E e \in NewOutcomes(ctor.pc) :
          LET c == [ctor EXCEPT !.log = Append(@, [call |-> ctor.pc, err |-> e])] IN
          ctor' = IF e # Success THEN [c EXCEPT !.pc = "done", !.result = "nil"]
                  ELSE IF NewNextStep[ctor.pc] = "done"
                  THEN [c EXCEPT !.pc = "done", !.result = "client"]
                  ELSE [c EXCEPT !.pc = NewNextStep[ctor.pc]]
    /\ UNCHANGED <<opt, rl, disp, httpVars, cacheVars, nsVars>>

\* the caller has taken what New returned
NewDone ==
    /\ ctor.pc = "done"
    /\ ctor' = IdleNew
    /\ UNCHANGED <<opt, rl, disp, httpVars, cacheVars, nsVars>>

(***************************************************************************)
(* Read and Write through xrdcopy and the cache directory                  *)
(***************************************************************************)
MaxXCalls == 2       \* Read / Write calls that get as far as naming a file

XProcs == {"x1", "x2"}

ExitCodes == {0, 1, 2, 22, -1}    \* -1: the child was killed (context cancelled)

CacheFile(prefix, id) == [prefix |-> prefix, id |-> id]

\* ran, exit, cmdErr: whether the call has run its child process, the exit
\* status of the child, and the error execute / executeEOS made of it
IdleX ==
    [pc |-> "idle", op |-> "none", username |-> "", file |-> 0,
     ran |-> FALSE, exit |-> 0, cmdErr |-> NoResult, result |-> NoResult]

\* Client.execute: the error for an exit code of the child
execute(exit) ==
    IF exit = 0 THEN Success
    ELSE IF exit = 2 THEN Err("NotFound", "stderr")
    ELSE Err("Exec", "eosclient: error while executing command")

\* Client.Read up to the command line: the user, the uuid, the local target
Read(p, username) ==
    /\ xc[p].pc = "idle"
    /\ LET u == getUnixUser(opt, username) IN
       IF ~u.ok
       THEN /\ xc' = [xc EXCEPT ![p] = [IdleX EXCEPT !.pc = "done", !.op = "Read",
                                          !.username = username,
                                          !.result = Err("UnknownUser", username)]]
            /\ UNCHANGED nextId
       ELSE /\ nextId <= MaxXCalls
            /\ xc' = [xc EXCEPT ![p] = [IdleX EXCEPT !.pc = "xrdcopy", !.op = "Read",
                                          !.username = username, !.file = nextId]]
            /\ nextId' = nextId + 1
    /\ UNCHANGED <<files, xlog, opt, auxVars, httpVars, nsVars>>

\* Client.Read from c.execute on: xrdcopy runs, then os.Open on success.
\* A failing xrdcopy may or may not leave (part of) the local target behind.
ReadExecute(p) ==
    /\ xc[p].pc = "xrdcopy" /\ xc[p].op = "Read"
    /\ \E exit \in ExitCodes, wrote \in BOOLEAN :
        /\ exit = 0 => wrote
        /\ files' = IF wrote THEN files \cup {CacheFile("eosread", xc[p].file)} ELSE files
        /\ xc' = [xc EXCEPT ![p].pc = "done", ![p].result = execute(exit),
                            ![p].ran = TRUE, ![p].exit = exit, ![p].cmdErr = execute(exit)]
        /\ xlog' = xlog \cup {[op |-> "Read", id |-> xc[p].file,
                               state |-> IF exit = 0 THEN "open" ELSE "failed"]}
    /\ UNCHANGED <<nextId, opt, auxVars, httpVars, nsVars>>

\* the caller closes the handle Read returned: os.File.Close
CloseHandle(id) ==
    /\ [op |-> "Read", id |-> id, state |-> "open"] \in xlog
    /\ xlog' = (xlog \ {[op |-> "Read", id |-> id, state |-> "open"]})
                 \cup {[op |-> "Read", id |-> id, state |-> "closed"]}
    /\ UNCHANGED <<files, xc, nextId, opt, auxVars, httpVars, nsVars>>

\* a Write that leaves its temporary file where it is
NoRemoveAll(fs, id) == fs

\* defer os.RemoveAll(fd.Name())
DeferredRemoveAll(fs, id) == fs \ {CacheFile("eoswrite", id)}

\* Client.Write up to io.Copy: the user, then ioutil.TempFile
Write(p, username) ==
    /\ xc[p].pc = "idle"
    /\ LET u == getUnixUser(opt, username) IN
       IF ~u.ok
       THEN /\ xc' = [xc EXCEPT ![p] = [IdleX EXCEPT !.pc = "done", !.op = "Write",
                                          !.username = username,
                                          !.result = Err("UnknownUser", username)]]
            /\ UNCHANGED <<nextId, files>>
       ELSE \E created \in BOOLEAN :
            IF ~created
            THEN /\ xc' = [xc EXCEPT ![p] = [IdleX EXCEPT !.pc = "done", !.op = "Write",
                                               !.username = username,
                                               !.result = Err("TempFile", "io")]]
                 /\ UNCHANGED <<nextId, files>>
            ELSE /\ nextId <= MaxXCalls
                 /\ xc' = [xc EXCEPT ![p] = [IdleX EXCEPT !.pc = "copy", !.op = "Write",
                                               !.username = username, !.file = nextId]]
                 /\ files' = files \cup {CacheFile("eoswrite", nextId)}
                 /\ nextId' = nextId + 1
    /\ UNCHANGED <<xlog, opt, auxVars, httpVars, nsVars>>

\* Client.Write: io.Copy of the stream into the temporary file
WriteCopy(p) ==
    /\ xc[p].pc = "copy"
    /\ \E copied \in BOOLEAN :
        IF copied
        THEN /\ xc' = [xc EXCEPT ![p].pc = "xrdcopy"]
             /\ UNCHANGED <<files, xlog>>
        ELSE /\ xc' = [xc EXCEPT ![p].pc = "done", ![p].result = Err("Copy", "io")]
             /\ files' = DeferredRemoveAll(files, xc[p].file)
             /\ xlog' = xlog \cup {[op |-> "Write", id |-> xc[p].file, state |-> "failed"]}
    /\ UNCHANGED <<nextId, opt, auxVars, httpVars, nsVars>>

\* Client.Write from c.execute on: xrdcopy runs, the deferred calls run
WriteExecute(p) ==
    /\ xc[p].pc = "xrdcopy" /\ xc[p].op = "Write"
    /\ \E exit \in ExitCodes :
        /\ xc' = [xc EXCEPT ![p].pc = "done", ![p].result = execute(exit),
                            ![p].ran = TRUE, ![p].exit = exit, ![p].cmdErr = execute(exit)]
        /\ files' = DeferredRemoveAll(files, xc[p].file)
        /\ xlog' = xlog \cup {[op |-> "Write", id |-> xc[p].file,
                               state |-> IF exit = 0 THEN "ok" ELSE "failed"]}
    /\ UNCHANGED <<nextId, opt, auxVars, httpVars, nsVars>>

\* Client.executeEOS: the error for an exit code of the eos binary. Exit 22
\* is made a PermissionDenied, which errors.Wrap then wraps like any error
\* but NotFound: what comes back is the wrapping error.
executeEOS(exit) ==
    IF exit = 0 THEN Success
    ELSE IF exit = 2 THEN Err("NotFound", "stderr")
    ELSE IF exit = 22
    THEN Err("Exec", "eosclient: error while executing command: permission denied")
    ELSE Err("Exec", "eosclient: error while executing command")

EosOps == {"ListDeletedEntries", "RestoreDeletedEntry", "PurgeDeletedEntries",
           "RollbackToVersion"}

\* ListDeletedEntries, RestoreDeletedEntry, PurgeDeletedEntries,
\* RollbackToVersion up to the command line: the user
EosCommand(p, op, username) ==
    /\ xc[p].pc = "idle"
    /\ LET u == getUnixUser(opt, username)
           c == [IdleX EXCEPT !.op = op, !.username = username]
       IN xc' = [xc EXCEPT ![p] =
                    IF ~u.ok
                    THEN [c EXCEPT !.pc = "done", !.result = Err("UnknownUser", username)]
                    ELSE [c EXCEPT !.pc = "eos"]]
    /\ UNCHANGED <<files, xlog, nextId, opt, auxVars, httpVars, nsVars>>

\* the same operations from c.executeEOS on; ListDeletedEntries then parses
\* the output, which may fail
EosExecute(p) ==
    /\ xc[p].pc = "eos"
    /\ \E exit \in ExitCodes, parsed \in BOOLEAN :
        LET e == executeEOS(exit) IN
        /\ (xc[p].op # "ListDeletedEntries" \/ e # Success) => parsed
        /\ xc' = [xc EXCEPT ![p].pc = "done", ![p].ran = TRUE, ![p].exit = exit,
                            ![p].cmdErr = e,
                            ![p].result = IF e = Success /\ ~parsed
                                          THEN Err("Parse", "recycle list") ELSE e]
    /\ UNCHANGED <<files, xlog, nextId, opt, auxVars, httpVars, nsVars>>

\* the caller takes what Read / Write returned
FinishX(p) ==
    /\ xc[p].pc = "done"
    /\ xc' = [xc EXCEPT ![p] = IdleX]
    /\ UNCHANGED <<files, xlog, nextId, opt, auxVars, httpVars, nsVars>>

(***************************************************************************)
(* alerting.Dispatcher: DispatchAlerts                                     *)
(* A site name is the sequence of its letters.                             *)
(***************************************************************************)
MaxAlerts == 3        \* alerts in one template.Data
MaxAccounts == 2      \* accounts in one data.Accounts

\* unicode.SimpleFold on the letters of the model, down to the lower case
SimpleFold(r) == IF r = "C" THEN "c" ELSE IF r = "E" THEN "e" ELSE r

\* a comparison that tells upper case from lower case
EqualFoldExact(s, t) == s = t

\* strings.EqualFold: rune by rune, equal under simple case folding
EqualFold(s, t) ==
    /\ Len(s) = Len(t)
    /\ \A i \in 1..Len(s) : s[i] = t[i] \/ SimpleFold(s[i]) = SimpleFold(t[i])

Sites == {<<"C", "e">>, <<"d">>}

\* template.Alert: the site_id label, if the alert has one
Alerts ==
    {[hasSiteID |-> FALSE, siteID |-> <<>>]}
    \cup {[hasSiteID |-> TRUE, siteID |-> s] : s \in {<<"c", "e">>, <<"c", "E">>}}

\* data.Account: the site and the ReceiveAlerts setting
Accounts == [Site : Sites, ReceiveAlerts : BOOLEAN]

\* sent: the calls of dispatchAlert so far, each with the alert (its index),
\* the account (its index) and whether SendAlertNotification went through
IdleDispatch ==
    [pc |-> "idle", alerts |-> <<>>, accounts |-> <<>>, i |-> 0, j |-> 0,
     sent |-> <<>>, result |-> NoResult]

\* DispatchAlerts: the entry, before the first alert
DispatchAlerts(alerts, accounts) ==
    /\ disp.pc = "idle"
    /\ disp' = [IdleDispatch EXCEPT !.pc = "alert", !.alerts = alerts,
                                    !.accounts = accounts, !.i = 1]
    /\ UNCHANGED <<ctor, rl, opt, httpVars, cacheVars, nsVars>>

\* the head of the outer loop: the end of the alerts and `return nil`, or
\* the test of the site_id label
NextAlert ==
    /\ disp.pc = "alert"
    /\ disp' = IF disp.i > Len(disp.alerts)
               THEN [disp EXCEPT !.pc = "done", !.result = Success]
               ELSE IF ~disp.alerts[disp.i].hasSiteID
               THEN [disp EXCEPT !.i = disp.i + 1]
               ELSE [disp EXCEPT !.pc = "account", !.j = 1]
    /\ UNCHANGED <<ctor, rl, opt, httpVars, cacheVars, nsVars>>

\* the head of the inner loop: the end of the accounts, or the test of the
\* account
NextAccount ==
    /\ disp.pc = "account"
    /\ disp' = IF disp.j > Len(disp.accounts)
               THEN [disp EXCEPT !.pc = "alert", !.i = disp.i + 1, !.j = 0]
               ELSE LET account == disp.accounts[disp.j] IN
                    IF EqualFold(account.Site, disp.alerts[disp.i].siteID)
                       /\ account.ReceiveAlerts
                    THEN [disp EXCEPT !.pc = "send"]
                    ELSE [disp EXCEPT !.j = disp.j + 1]
    /\ UNCHANGED <<ctor, rl, opt, httpVars, cacheVars, nsVars>>

\* dispatchAlert: the mail goes out or it does not; an error is logged only
dispatchAlert ==
    /\ disp.pc = "send"
    /\ \E ok \in BOOLEAN :
          disp' = [disp EXCEPT !.pc = "account", !.j = disp.j + 1,
                               !.sent = Append(@, [alert |-> disp.i, account |-> disp.j,
                                                   ok |-> ok])]
    /\ UNCHANGED <<ctor, rl, opt, httpVars, cacheVars, nsVars>>

\* the caller has the result
DispatchReturned ==
    /\ disp.pc = "done"
    /\ disp' = IdleDispatch
    /\ UNCHANGED <<ctor, rl, opt, httpVars, cacheVars, nsVars>>

(***************************************************************************)
(* The recycle bin: parseRecycleEntry on a line of `eos recycle ls -m`.    *)
(* A string is the sequence of its pieces: words, and the separators " ",  *)
(* "=" and "." each as a piece of its own.                                 *)
(***************************************************************************)
MaxPathWords == 3     \* words of a restore-path, one space between two

\* strings.Split(s, sep): the pieces between the separators, empty ones too
RECURSIVE StringsSplit(_, _)
StringsSplit(s, sep) ==
    IF \A i \in 1..Len(s) : s[i] # sep
    THEN <<s>>
    ELSE LET k == CHOOSE i \in 1..Len(s) : s[i] = sep /\ \A j \in 1..(i - 1) : s[j] # sep
         IN <<SubSeq(s, 1, k - 1)>> \o StringsSplit(SubSeq(s, k + 1, Len(s)), sep)

\* strings.Join(elems, sep)
RECURSIVE StringsJoin(_, _)
StringsJoin(elems, sep) ==
    IF elems = <<>> THEN <<>>
    ELSE IF Len(elems) = 1 THEN elems[1]
    ELSE elems[1] \o <<sep>> \o StringsJoin(Tail(elems), sep)

\* getMap: kv[parts[0]] = parts[1] for every pair with a "=", a later pair
\* for a key replacing an earlier one. The map as the sequence of its pairs.
RECURSIVE getMap(_)
getMap(partsBySpace) ==
    IF partsBySpace = <<>> THEN <<>>
    ELSE LET rest == getMap(SubSeq(partsBySpace, 1, Len(partsBySpace) - 1))
             parts == StringsSplit(partsBySpace[Len(partsBySpace)], "=")
         IN IF Len(parts) > 1
            THEN <<[key |-> parts[1], value |-> parts[2]]>>
                 \o SelectSeq(rest, LAMBDA e : e.key # parts[1])
            ELSE rest

\* kv[key]: the value, or the empty string
MapGet(kv, key) ==
    IF \E i \in 1..Len(kv) : kv[i].key = <<key>>
    THEN kv[CHOOSE i \in 1..Len(kv) : kv[i].key = <<key>>].value
    ELSE <<>>

\* strconv.ParseUint on a string of the model
ParseUintText(s) == IF Len(s) = 1 THEN ParseUint(s[1]) ELSE [ok |-> FALSE, v |-> 0]

DeletedEntry(path, key, size, mtime, isDir) ==
    [RestorePath |-> path, RestoreKey |-> key, Size |-> size, DeletionMTime |-> mtime,
     IsDir |-> isDir]

NoDeletedEntry == DeletedEntry(<<>>, <<>>, 0, 0, FALSE)

\* parseRecycleEntry
parseRecycleEntry(raw) ==
    LET split == StringsSplit(raw, " ")
        restoreKeyPair == split[Len(split)]
        bySpace == SubSeq(split, 1, Len(split) - 1)
    IN IF Len(bySpace) < 9
       THEN [err |-> Err("panic", "slice bounds out of range"), entry |-> NoDeletedEntry]
       ELSE LET restorePathPair == StringsJoin(SubSeq(bySpace, 10, Len(bySpace)), " ")
                kv == getMap(SubSeq(bySpace, 1, 9) \o <<restorePathPair, restoreKeyPair>>)
                size == ParseUintText(MapGet(kv, "size"))
                deletionMTime ==
                    ParseUintText(StringsSplit(MapGet(kv, "deletion-time"), ".")[1])
            IN IF ~size.ok THEN [err |-> Err("Syntax", "size"), entry |-> NoDeletedEntry]
               ELSE IF ~deletionMTime.ok
               THEN [err |-> Err("Syntax", "deletion-time"), entry |-> NoDeletedEntry]
               ELSE [err |-> Success,
                     entry |-> DeletedEntry(MapGet(kv, "restore-path"),
                                            MapGet(kv, "restore-key"),
                                            size.v, deletionMTime.v,
                                            MapGet(kv, "type") = <<"recursive-dir">>)]

\* the restore-paths of the deleted files: words with single spaces between
PathWords == {"/eos/u/a", "a/b", "c"}

RestorePaths ==
    {StringsJoin([i \in 1..Len(w) |-> <<w[i]>>], " ") :
        w \in UNION {[1..n -> PathWords] : n \in 1..MaxPathWords}}

\* what eos has to say about a deleted entry. doubleSpace: the line has two
\* spaces after "recycle=ls", as the lines quoted above parseRecycleEntry
RecycleRecords ==
    [doubleSpace : BOOLEAN, path : RestorePaths, key : {"000000002544fdb3", "0000000000a35100"},
     type : {"file", "recursive-dir"}, size : {<<"0">>, <<"1001">>, <<"1k">>},
     dtime : {<<"1002">>, <<"1002", ".", "0">>}]

\* the line of `recycle ls -m` for such an entry
RecycleLine(r) ==
    <<"recycle", "=", "ls", " ">> \o (IF r.doubleSpace THEN <<" ">> ELSE <<>>)
    \o <<"recycle-bin", "=", "/eos/backup/proc/recycle/", " ", "uid", "=", "alice", " ",
         "gid", "=", "it", " ", "size", "=">> \o r.size
    \o <<" ", "deletion-time", "=">> \o r.dtime
    \o <<" ", "type", "=", r.type, " ", "keylength.restore-path", "=", "11", " ",
         "restore-path", "=">> \o r.path \o <<" ", "restore-key", "=", r.key>>

NoLine ==
    [pc |-> "idle",
     rec |-> [doubleSpace |-> FALSE, path |-> <<>>, key |-> "", type |-> "",
              size |-> <<>>, dtime |-> <<>>],
     raw |-> <<>>, err |-> NoResult, entry |-> NoDeletedEntry]

\* parseRecycleList hands a line of the output to parseRecycleEntry
ParseRecycleLine(r) ==
    /\ rl.pc = "idle"
    /\ LET raw == RecycleLine(r)
           parsed == parseRecycleEntry(raw)
       IN rl' = [pc |-> "done", rec |-> r, raw |-> raw, err |-> parsed.err,
                 entry |-> parsed.entry]
    /\ UNCHANGED <<ctor, disp, opt, httpVars, cacheVars, nsVars>>

\* the next line
NextRecycleLine ==
    /\ rl.pc = "done"
    /\ rl' = NoLine
    /\ UNCHANGED <<ctor, disp, opt, httpVars, cacheVars, nsVars>>

(***************************************************************************)
(* The ACL codec (package acl). Short-form text is a sequence of tokens:   *)
(* the separators "," and ":" and one token for each field.                *)
(***************************************************************************)
TypeUser == "u"

Separators == {",", ":"}

Entry(t, q, perms) == [Type |-> t, Qualifier |-> q, Permissions |-> perms]

\* the chunks of text between the occurrences of sep
RECURSIVE SplitOn(_, _)
SplitOn(text, sep) ==
    IF \A i \in 1..Len(text) : text[i] # sep
    THEN <<text>>
    ELSE LET k == CHOOSE i \in 1..Len(text) :
                      text[i] = sep /\ \A j \in 1..(i - 1) : text[j] # sep
         IN <<SubSeq(text, 1, k - 1)>> \o SplitOn(SubSeq(text, k + 1, Len(text)), sep)

\* <t>:<q>:<p>
WellFormedEntry(chunk) ==
    LET f == SplitOn(chunk, ":") IN Len(f) = 3 /\ \A i \in 1..3 : Len(f[i]) = 1

ParseEntry(chunk) ==
    LET f == SplitOn(chunk, ":") IN Entry(f[1][1], f[2][1], f[3][1])

\* parse(text, form=SHORT): the empty text is the empty list, a malformed
\* entry is InvalidInput
Parse(text) ==
    IF text = <<>> THEN [ok |-> TRUE, Entries |-> <<>>]
    ELSE LET chunks == SplitOn(text, ",") IN
         IF \A i \in 1..Len(chunks) : WellFormedEntry(chunks[i])
         THEN [ok |-> TRUE, Entries |-> [i \in 1..Len(chunks) |-> ParseEntry(chunks[i])]]
         ELSE [ok |-> FALSE, Entries |-> <<>>]

\* serialize(): the entries in their order, joined by ","
RECURSIVE Serialize(_)
Serialize(entries) ==
    IF entries = <<>> THEN <<>>
    ELSE LET e == Head(entries)
             one == <<e.Type, ":", e.Qualifier, ":", e.Permissions>>
         IN IF Len(entries) = 1 THEN one
            ELSE one \o <<",">> \o Serialize(Tail(entries))

SameKey(e, t, q) == e.Type = t /\ e.Qualifier = q

\* set(type, qualifier, permissions): overwrite in place, else append
SetEntry(entries, t, q, perms) ==
    IF \E i \in 1..Len(entries) : SameKey(entries[i], t, q)
    THEN [i \in 1..Len(entries) |->
             IF SameKey(entries[i], t, q) THEN Entry(t, q, perms) ELSE entries[i]]
    ELSE Append(entries, Entry(t, q, perms))

\* delete(type, qualifier): remove the first matching entry, if any
DeleteEntry(entries, t, q) ==
    IF \E i \in 1..Len(entries) : SameKey(entries[i], t, q)
    THEN LET k == CHOOSE i \in 1..Len(entries) :
                      SameKey(entries[i], t, q)
                      /\ \A j \in 1..(i - 1) : ~SameKey(entries[j], t, q)
         IN SubSeq(entries, 1, k - 1) \o SubSeq(entries, k + 1, Len(entries))
    ELSE entries

\* what the MGM may hold as sys.acl of a path: nothing, one entry, two
\* entries, an entry short of its permissions
MgmRules ==
    {<<>>,
     <<"u", ":", "1001", ":", "rw">>,
     <<"u", ":", "1001", ":", "rw", ",", "g", ":", "100", ":", "r">>,
     <<"g", ":", "100", ":", "r", ",", "u", ":", "7">>}

\* the entries a caller hands to AddACL
AclEntries ==
    {Entry("u", "alice", "rwx"), Entry("u", "ghost", "rwx"),
     Entry("g", "100", "rwx"), Entry("u", "apache", "r")}

\* getUID: os/user.Lookup, then the Uid
getUID(username) ==
    LET u == Lookup(username) IN [ok |-> u.ok, uid |-> u.Uid]

\* getUsername: os/user.LookupId, then the Username
getUsername(uid) ==
    IF uid = "1001" THEN [ok |-> TRUE, name |-> "alice"]
    ELSE IF uid = "48" THEN [ok |-> TRUE, name |-> "apache"]
    ELSE IF uid = "1002" THEN [ok |-> TRUE, name |-> "furano"]
    ELSE [ok |-> FALSE, name |-> ""]

(***************************************************************************)
(* The namespace operations over gRPC                                      *)
(***************************************************************************)
MaxList == 2         \* entries one Find stream delivers before its end

NProcs == {"n1"}

NSPaths == {<<"/", "eos">>, <<"/", "eos", "/">>}

\* path.Clean on the paths of the model: no trailing slash but for the root
Clean(path) ==
    IF Len(path) > 1 /\ path[Len(path)] = "/" THEN SubSeq(path, 1, Len(path) - 1) ELSE path

Modes == {"750", "rwx"}

NoEntry == Entry("", "", "")

Panic == Err("panic", "invalid memory address or nil pointer dereference")

\* st: the latest MDResponse the call has converted to a FileInfo.
\* stamp: the place of the call's MODIFY in the order in which the MGM
\* processed the MODIFY requests of the calls in progress; 0 before
IdleNS ==
    [pc |-> "idle", op |-> "none", username |-> "", path |-> <<>>, arg |-> "",
     a |-> NoEntry, reqs |-> <<>>, replies |-> <<>>, acls |-> <<>>, out |-> <<>>,
     cancelled |-> FALSE, listErr |-> NoResult, stamp |-> 0,
     st |-> [Type |-> 0, hasFmd |-> FALSE, hasCmd |-> FALSE, Name |-> <<>>],
     result |-> NoResult]

Begin(op, username, path, arg, a) ==
    [IdleNS EXCEPT !.op = op, !.username = username, !.path = path, !.arg = arg, !.a = a]

ReturnNS(c, e) == [c EXCEPT !.pc = "done", !.result = e]

Send(c, rq) == [c EXCEPT !.pc = "wait", !.reqs = Append(@, rq)]

\* a request whose uid and gid are one and the same number
initNSRequestGidFromUid(o, username) ==
    LET unixUser == getUnixUser(o, username)
        uid == ParseUint(unixUser.Uid)
    IN [ok |-> unixUser.ok /\ uid.ok, uid |-> uid.v, gid |-> uid.v, authkey |-> o.Authkey]

\* Client.initNSRequest: role and authkey of a request, or an error. The same
\* lines stand inline in AddACL, RemoveACL, GetFileInfoByInode,
\* GetFileInfoByPath and List.
initNSRequest(o, username) ==
    LET unixUser == getUnixUser(o, username)
        uid == ParseUint(unixUser.Uid)
        gid == ParseUint(unixUser.Gid)
    IN [ok |-> unixUser.ok /\ uid.ok /\ gid.ok,
        uid |-> uid.v, gid |-> gid.v, authkey |-> o.Authkey]

\* the request as it goes on the channel
NSRequest(rq, rpc, cmd, ctx, path) ==
    [rpc |-> rpc, cmd |-> cmd, ctx |-> ctx, uid |-> rq.uid, gid |-> rq.gid,
     authkey |-> rq.authkey, path |-> path, type |-> "", recursive |-> FALSE,
     rule |-> <<>>, num |-> 0]

AclRequest(rq, cmd, path, rule) ==
    [NSRequest(rq, "Exec", cmd, "background", path)
        EXCEPT !.type = "SYS_ACL", !.recursive = TRUE, !.rule = rule]

\* what Exec may hand back: an error, a nil response, a response with or
\* without its error envelope and its Acl message
ExecReplies(rule) ==
    {[kind |-> "err", error |-> "absent", acl |-> FALSE, rule |-> <<>>],
     [kind |-> "nil", error |-> "absent", acl |-> FALSE, rule |-> <<>>]}
    \cup {[kind |-> "resp", error |-> e, acl |-> a, rule |-> IF a THEN rule ELSE <<>>] :
             e \in {"absent", "zero", "nonzero"}, a \in BOOLEAN}

\* the end of Touch, Chown, Chmod, CreateDir, rm, rmdir, SetAttr, UnsetAttr:
\* the err of Exec, the log line with resp.GetError().Code, the nil test,
\* return err
ExecResult(reply) ==
    IF reply.kind = "err" THEN Err("Transport", "rpc error")
    ELSE IF reply.kind = "nil" \/ reply.error = "absent" THEN Panic
    ELSE Success

\* the first lines of an Exec operation: initNSRequest, then the command
StartExec(c, cmd, num) ==
    LET rq == initNSRequest(opt, c.username) IN
    IF ~rq.ok THEN ReturnNS(c, Err("UnknownUser", c.username))
    ELSE Send(c, [NSRequest(rq, "Exec", cmd, "caller", c.path) EXCEPT !.num = num])

Touch(p, username, path) ==
    /\ nc[p].pc = "idle"
    /\ nc' = [nc EXCEPT ![p] = StartExec(Begin("Touch", username, path, "", NoEntry), "touch", 0)]
    /\ UNCHANGED <<mgmAcl, opt, auxVars, httpVars, cacheVars>>

SetAttr(p, username, path) ==
    /\ nc[p].pc = "idle"
    /\ nc' = [nc EXCEPT ![p] = StartExec(Begin("SetAttr", username, path, "", NoEntry), "xattr.set", 0)]
    /\ UNCHANGED <<mgmAcl, opt, auxVars, httpVars, cacheVars>>

UnsetAttr(p, username, path) ==
    /\ nc[p].pc = "idle"
    /\ nc' = [nc EXCEPT ![p] = StartExec(Begin("UnsetAttr", username, path, "", NoEntry), "xattr.unset", 0)]
    /\ UNCHANGED <<mgmAcl, opt, auxVars, httpVars, cacheVars>>

rm(p, username, path) ==
    /\ nc[p].pc = "idle"
    /\ nc' = [nc EXCEPT ![p] = StartExec(Begin("rm", username, path, "", NoEntry), "unlink", 0)]
    /\ UNCHANGED <<mgmAcl, opt, auxVars, httpVars, cacheVars>>

rmdir(p, username, path) ==
    /\ nc[p].pc = "idle"
    /\ nc' = [nc EXCEPT ![p] = StartExec(Begin("rmdir", username, path, "", NoEntry), "rmdir", 0)]
    /\ UNCHANGED <<mgmAcl, opt, auxVars, httpVars, cacheVars>>

\* Chown: the owner is looked up through getUnixUser as well
Chown(p, username, chownUser, path) ==
    /\ nc[p].pc = "idle"
    /\ LET c == Begin("Chown", username, path, chownUser, NoEntry)
           rq == initNSRequest(opt, username)
           chownunixUser == getUnixUser(opt, chownUser)
           owner == ParseUint(chownunixUser.Uid)
       IN nc' = [nc EXCEPT ![p] =
                    IF ~rq.ok THEN ReturnNS(c, Err("UnknownUser", username))
                    ELSE IF ~chownunixUser.ok THEN ReturnNS(c, Err("UnknownUser", chownUser))
                    ELSE IF ~owner.ok THEN ReturnNS(c, Err("Syntax", chownunixUser.Uid))
                    ELSE StartExec(c, "chown", owner.v)]
    /\ UNCHANGED <<mgmAcl, opt, auxVars, httpVars, cacheVars>>

\* Chmod: strconv.ParseUint(mode, 10, 64)
Chmod(p, username, mode, path) ==
    /\ nc[p].pc = "idle"
    /\ LET c == Begin("Chmod", username, path, mode, NoEntry)
           rq == initNSRequest(opt, username)
           md == ParseUint(mode)
       IN nc' = [nc EXCEPT ![p] =
                    IF ~rq.ok THEN ReturnNS(c, Err("UnknownUser", username))
                    ELSE IF ~md.ok THEN ReturnNS(c, Err("Syntax", mode))
                    ELSE StartExec(c, "chmod", md.v)]
    /\ UNCHANGED <<mgmAcl, opt, auxVars, httpVars, cacheVars>>

\* CreateDir: strconv.ParseUint("0o750", 10, 64)
CreateDir(p, username, path) ==
    /\ nc[p].pc = "idle"
    /\ LET c == Begin("CreateDir", username, path, "0o750", NoEntry)
           rq == initNSRequest(opt, username)
           md == ParseUint("0o750")
       IN nc' = [nc EXCEPT ![p] =
                    IF ~rq.ok THEN ReturnNS(c, Err("UnknownUser", username))
                    ELSE IF ~md.ok THEN ReturnNS(c, Err("Syntax", "0o750"))
                    ELSE LET s == StartExec(c, "mkdir", md.v)
                         IN [s EXCEPT !.reqs[Len(s.reqs)].recursive = TRUE]]
    /\ UNCHANGED <<mgmAcl, opt, auxVars, httpVars, cacheVars>>

\* GetQuota: return 0, 0, errtypes.NotSupported(...)
GetQuota(p, username, path) ==
    /\ nc[p].pc = "idle"
    /\ nc' = [nc EXCEPT ![p] = ReturnNS(Begin("GetQuota", username, path, "", NoEntry),
                                        Err("NotSupported", "acltype"))]
    /\ UNCHANGED <<mgmAcl, opt, auxVars, httpVars, cacheVars>>

\* Rename: return errtypes.NotFound(...); the call keeps newPath
Rename(p, username, oldPath, newPath) ==
    /\ nc[p].pc = "idle"
    /\ nc' = [nc EXCEPT ![p] = ReturnNS(Begin("Rename", username, newPath, "", NoEntry),
                                        Err("NotFound", "acltype"))]
    /\ UNCHANGED <<mgmAcl, opt, auxVars, httpVars, cacheVars>>

ExecOps == {"Touch", "Chown", "Chmod", "CreateDir", "rm", "rmdir", "SetAttr", "UnsetAttr"}

\* Exec has returned to one of the operations above (or to the rm / rmdir
\* that Remove called)
ExecReturn(p) ==
    /\ nc[p].pc = "wait"
    /\ \/ nc[p].op \in ExecOps
       \/ nc[p].op = "Remove" /\ Len(nc[p].reqs) = 2
    /\ \E reply \in ExecReplies(<<>>) :
          nc' = [nc EXCEPT ![p] = ReturnNS([nc[p] EXCEPT !.replies = Append(@, reply)],
                                       ExecResult(reply))]
    /\ UNCHANGED <<mgmAcl, opt, auxVars, httpVars, cacheVars>>

\* the part of getACLForPath after Exec: the nil test, the log line, Parse
getACLForPathResult(reply) ==
    IF reply.kind = "err" THEN [err |-> Err("Transport", "rpc error"), Entries |-> <<>>]
    ELSE IF reply.kind = "nil" THEN [err |-> Err("Internal", "nil response"), Entries |-> <<>>]
    ELSE IF reply.error = "absent" \/ ~reply.acl THEN [err |-> Panic, Entries |-> <<>>]
    ELSE LET aclret == Parse(reply.rule) IN
         IF aclret.ok THEN [err |-> Success, Entries |-> aclret.Entries]
         ELSE [err |-> Err("InvalidInput", "malformed acl"), Entries |-> <<>>]

\* the first lines of getACLForPath: initNSRequest, then the LIST request
getACLForPath(c) ==
    LET rq == initNSRequest(opt, c.username) IN
    IF ~rq.ok THEN ReturnNS(c, Err("UnknownUser", c.username))
    ELSE Send(c, AclRequest(rq, "LIST", c.path, <<>>))

AddACL(p, username, path, a) ==
    /\ nc[p].pc = "idle"
    /\ nc' = [nc EXCEPT ![p] = getACLForPath(Begin("AddACL", username, path, "", a))]
    /\ UNCHANGED <<mgmAcl, opt, auxVars, httpVars, cacheVars>>

RemoveACL(p, username, path, aclType, recipient) ==
    /\ nc[p].pc = "idle"
    /\ nc' = [nc EXCEPT ![p] =
                 getACLForPath(Begin("RemoveACL", username, path, "", Entry(aclType, recipient, "")))]
    /\ UNCHANGED <<mgmAcl, opt, auxVars, httpVars, cacheVars>>

ListACLs(p, username, path) ==
    /\ nc[p].pc = "idle"
    /\ nc' = [nc EXCEPT ![p] = getACLForPath(Begin("ListACLs", username, path, "", NoEntry))]
    /\ UNCHANGED <<mgmAcl, opt, auxVars, httpVars, cacheVars>>

\* AddACL / RemoveACL from the conversion of the qualifier to the MODIFY
\* request
ModifyACL(c, acls) ==
    LET q == IF c.a.Type = TypeUser THEN getUID(c.a.Qualifier)
             ELSE [ok |-> TRUE, uid |-> c.a.Qualifier]
        changed == IF c.op = "AddACL"
                   THEN SetEntry(acls, c.a.Type, q.uid, c.a.Permissions)
                   ELSE DeleteEntry(acls, c.a.Type, q.uid)
        rq == initNSRequest(opt, c.username)
    IN IF ~q.ok THEN ReturnNS(c, Err("UnknownUser", c.a.Qualifier))
       ELSE IF ~rq.ok THEN ReturnNS(c, Err("UnknownUser", c.username))
       ELSE Send([c EXCEPT !.acls = changed], AclRequest(rq, "MODIFY", c.path, Serialize(changed)))

\* ListACLs: the loop that maps every qualifier to a name and skips the
\* entries it cannot map
RECURSIVE MapQualifiers(_)
MapQualifiers(entries) ==
    IF entries = <<>> THEN <<>>
    ELSE LET e == Head(entries)
             n == getUsername(e.Qualifier)
         IN IF n.ok THEN <<[e EXCEPT !.Qualifier = n.name]>> \o MapQualifiers(Tail(entries))
            ELSE MapQualifiers(Tail(entries))

\* the LIST request of getACLForPath is answered
ACLListReply(p) ==
    /\ nc[p].pc = "wait"
    /\ nc[p].op \in {"AddACL", "RemoveACL", "ListACLs"}
    /\ Len(nc[p].reqs) = 1
    /\ \E reply \in ExecReplies(mgmAcl) :
          LET c == [nc[p] EXCEPT !.replies = Append(@, reply)]
              r == getACLForPathResult(reply)
          IN nc' = [nc EXCEPT ![p] =
                       IF r.err # Success THEN ReturnNS(c, r.err)
                       ELSE IF c.op = "ListACLs"
                            THEN ReturnNS([c EXCEPT !.acls = MapQualifiers(r.Entries)], Success)
                            ELSE ModifyACL(c, r.Entries)]
    /\ UNCHANGED <<mgmAcl, opt, auxVars, httpVars, cacheVars>>

\* the end of AddACL / RemoveACL: the err of Exec, the nil test, return err
ModifyResult(reply) ==
    IF reply.kind = "err" THEN Err("Transport", "rpc error")
    ELSE IF reply.kind = "nil" THEN Err("NotFound", "path")
    ELSE Success

\* the MODIFY request is answered; the MGM has taken the rule if it says so
ACLModifyReply(p) ==
    /\ nc[p].pc = "wait"
    /\ nc[p].op \in {"AddACL", "RemoveACL"}
    /\ Len(nc[p].reqs) = 2
    /\ \E reply \in ExecReplies(<<>>) :
          /\ nc' = [nc EXCEPT ![p] =
                       ReturnNS([nc[p] EXCEPT !.replies = Append(@, reply),
                                              !.stamp = 1 + Cardinality(
                                                  {q \in DOMAIN nc : nc[q].stamp > 0})],
                                ModifyResult(reply))]
          /\ mgmAcl' = IF reply.kind = "resp" /\ reply.error = "zero"
                       THEN nc[p].reqs[2].rule ELSE mgmAcl
    /\ UNCHANGED <<opt, auxVars, httpVars, cacheVars>>

\* what MD / Find deliver: the fields of an MDResponse the client reads
MDNames == {<<"/", "eos">>, <<"/", "eos", "f">>}

MDResponses ==
    [Type : {0, 1}, hasFmd : BOOLEAN, hasCmd : BOOLEAN, Name : MDNames]

\* a Recv on the stream: a response, a nil response, an error, the end
StreamItems ==
    {[kind |-> k, st |-> [Type |-> 0, hasFmd |-> FALSE, hasCmd |-> FALSE, Name |-> <<>>]] :
        k \in {"err", "nil", "eof"}}
    \cup {[kind |-> "md", st |-> st] : st \in MDResponses}

FileInfo(isDir, file) == [IsDir |-> isDir, File |-> file]

\* Client.grpcMDResponseToFileInfo
grpcMDResponseToFileInfo(st) ==
    IF ~st.hasCmd /\ ~st.hasFmd
    THEN [err |-> Err("NotSupported", "Invalid response (st.Cmd and st.Fmd are nil)"),
          fi |-> FileInfo(FALSE, <<>>)]
    ELSE [err |-> Success, fi |-> FileInfo(st.Type # 0, st.Name)]

\* the first lines of GetFileInfoByPath, GetFileInfoByInode and List: the
\* role, the authkey, the request
StartMD(c, rpc, cmd, ctx) ==
    LET rq == initNSRequest(opt, c.username) IN
    IF ~rq.ok THEN ReturnNS(c, Err("UnknownUser", c.username))
    ELSE Send(c, NSRequest(rq, rpc, cmd, ctx, c.path))

GetFileInfoByPath(p, username, path) ==
    /\ nc[p].pc = "idle"
    /\ nc' = [nc EXCEPT ![p] =
                 StartMD(Begin("GetFileInfoByPath", username, path, "", NoEntry),
                         "MD", "STAT", "caller")]
    /\ UNCHANGED <<mgmAcl, opt, auxVars, httpVars, cacheVars>>

\* the inode is of no account here: the path stays empty
GetFileInfoByInode(p, username) ==
    /\ nc[p].pc = "idle"
    /\ nc' = [nc EXCEPT ![p] =
                 StartMD(Begin("GetFileInfoByInode", username, <<>>, "", NoEntry),
                         "MD", "STAT", "background")]
    /\ UNCHANGED <<mgmAcl, opt, auxVars, httpVars, cacheVars>>

\* a Remove that unlinks whatever the stat said
RemoveCommandAlwaysUnlink(nfo) == "unlink"

\* Remove: if nfo.IsDir { return c.rmdir(...) }; return c.rm(...)
RemoveCommand(nfo) == IF nfo.IsDir THEN "rmdir" ELSE "unlink"

\* Remove starts with GetFileInfoByPath
Remove(p, username, path) ==
    /\ nc[p].pc = "idle"
    /\ nc' = [nc EXCEPT ![p] =
                 StartMD(Begin("Remove", username, path, "", NoEntry), "MD", "STAT", "caller")]
    /\ UNCHANGED <<mgmAcl, opt, auxVars, httpVars, cacheVars>>

\* MD and its Recv have returned to GetFileInfoByPath / GetFileInfoByInode
MDReturn(p) ==
    /\ nc[p].pc = "wait"
    /\ nc[p].op \in {"GetFileInfoByPath", "GetFileInfoByInode", "Remove"}
    /\ Len(nc[p].reqs) = 1
    /\ \E item \in StreamItems :
          LET c == nc[p]
              conv == grpcMDResponseToFileInfo(item.st)
          IN nc' = [nc EXCEPT ![p] =
                IF item.kind \in {"err", "eof"} THEN ReturnNS(c, Err("Transport", "rpc error"))
                ELSE IF item.kind = "nil"
                THEN ReturnNS(c, IF c.op = "GetFileInfoByInode"
                                 THEN Err("Internal", "nil response")
                                 ELSE Err("NotFound", "path"))
                ELSE IF conv.err # Success THEN ReturnNS(c, conv.err)
                ELSE IF c.op = "Remove"
                THEN StartExec([c EXCEPT !.out = <<conv.fi>>, !.st = item.st],
                               RemoveCommand(conv.fi), 0)
                ELSE ReturnNS([c EXCEPT !.out = <<conv.fi>>, !.st = item.st], Success)]
    /\ UNCHANGED <<mgmAcl, opt, auxVars, httpVars, cacheVars>>

List(p, username, path) ==
    /\ nc[p].pc = "idle"
    /\ nc' = [nc EXCEPT ![p] =
                 StartMD(Begin("List", username, path, "", NoEntry),
                         "Find", "LISTING", "background")]
    /\ UNCHANGED <<mgmAcl, opt, auxVars, httpVars, cacheVars>>

\* path.Base, path.Dir and path.Join on the paths of the model
pathBase(path) == LET q == Clean(path) IN q[Len(q)]

pathDir(path) ==
    IF path[Len(path)] = "/" THEN Clean(path) ELSE Clean(SubSeq(path, 1, Len(path) - 1))

pathJoin(dir, name) == Clean(dir) \o <<name>>

\* versionPrefix + basename
VersionName(basename) == IF basename = "eos" THEN ".sys.v#.eos" ELSE ".sys.v#."

\* ListVersions after c.List has returned (r: the call as List left it): an
\* error of List becomes an empty list and a nil error. listErr is the err
\* that List returned.
ListVersionsReturn(r) ==
    IF r.pc # "done" THEN r
    ELSE IF r.result # Success
         THEN [r EXCEPT !.listErr = r.result, !.out = <<>>, !.result = Success]
         ELSE [r EXCEPT !.listErr = Success]

\* ListVersions: c.List on the version folder of p
ListVersions(p, username, path) ==
    /\ nc[p].pc = "idle"
    /\ nc' = [nc EXCEPT ![p] =
                 ListVersionsReturn(
                     StartMD(Begin("ListVersions", username,
                                   pathJoin(pathDir(path), VersionName(pathBase(path))),
                                   "", NoEntry),
                             "Find", "LISTING", "background"))]
    /\ UNCHANGED <<mgmAcl, opt, auxVars, httpVars, cacheVars>>

\* one turn of the Recv loop of List
ListRecv(p) ==
    /\ nc[p].pc = "wait"
    /\ nc[p].op \in {"List", "ListVersions"}
    /\ \E item \in StreamItems :
          LET c == nc[p]
              myitem == grpcMDResponseToFileInfo(item.st)
              r == IF item.kind = "eof" THEN ReturnNS(c, Success)
                   ELSE IF item.kind = "err"
                   THEN ReturnNS([c EXCEPT !.out = <<>>], Err("Transport", "rpc error"))
                   ELSE IF item.kind = "nil"
                   THEN ReturnNS([c EXCEPT !.out = <<>>], Err("NotFound", "path"))
                   ELSE IF myitem.err # Success
                   THEN ReturnNS([c EXCEPT !.out = <<>>], myitem.err)
                   ELSE [c EXCEPT !.out = Append(@, myitem.fi), !.st = item.st]
          IN /\ item.kind = "md" => Len(c.out) < MaxList
             /\ nc' = [nc EXCEPT ![p] =
                          IF c.op = "ListVersions" THEN ListVersionsReturn(r) ELSE r]
    /\ UNCHANGED <<mgmAcl, opt, auxVars, httpVars, cacheVars>>

\* The caller cancels its context (or its deadline expires) while a gRPC call
\* of the operation is pending. A call made with the caller's ctx ends with a
\* Canceled status, which the operation returns; a call made with
\* context.Background() knows nothing of it and stays pending.
Cancel(p) ==
    /\ nc[p].pc = "wait"
    /\ ~nc[p].cancelled
    /\ LET c == [nc[p] EXCEPT !.cancelled = TRUE]
           pending == c.reqs[Len(c.reqs)]
       IN nc' = [nc EXCEPT ![p] =
                    IF pending.ctx = "caller"
                    THEN ReturnNS(c, Err("Canceled", "rpc error"))
                    ELSE c]
    /\ UNCHANGED <<mgmAcl, opt, auxVars, httpVars, cacheVars>>

\* the caller takes what the operation returned
FinishNS(p) ==
    /\ nc[p].pc = "done"
    /\ nc' = [nc EXCEPT ![p] = IdleNS]
    /\ UNCHANGED <<mgmAcl, opt, auxVars, httpVars, cacheVars>>

(***************************************************************************)
(* Specifications                                                          *)
(***************************************************************************)
\* nothing under construction, no line parsed, no alert being dispatched
AuxIdle == ctor = IdleNew /\ rl = NoLine /\ disp = IdleDispatch

InitHTTP ==
    /\ cl = NewHTTPClient
    /\ hc = [p \in HProcs |-> IdleCall]
    /\ now = 0
    /\ opt = DefaultOptions
    /\ files = {} /\ xc = [p \in XProcs |-> IdleX] /\ xlog = {} /\ nextId = 1
    /\ nc = [p \in NProcs |-> IdleNS] /\ mgmAcl = <<>>
    /\ AuxIdle

\* a few url_paths: a clean one, a rejected one, one that slips through
SomePaths == {<<"/">>, <<"/", "?", RUID, "=">>, <<RUID, "?", RUID, "=">>}

NextHTTP ==
    \/ \E p \in HProcs : GETFile(p, SomePaths)
    \/ \E p \in HProcs : PUTFile(p, SomePaths)
    \/ \E p \in HProcs : ClientHead(p, SomePaths)
    \/ \E p \in HProcs : LoopTimeout(p)
    \/ \E p \in HProcs : LoopDo(p, ServerAnswers)
    \/ \E p \in HProcs : Finish(p)
    \/ Tick

SpecHTTP == InitHTTP /\ [][NextHTTP]_vars

\* every url_path of the bound, against a server that answers each request
\* with a final status, the clock standing still
FinalAnswers == {a \in ServerAnswers : a.err = "none" /\ a.status \in {200, 404}}

NextURL ==
    \/ \E p \in HProcs : GETFile(p, AllPaths)
    \/ \E p \in HProcs : PUTFile(p, AllPaths)
    \/ \E p \in HProcs : ClientHead(p, AllPaths)
    \/ \E p \in HProcs : LoopDo(p, FinalAnswers)
    \/ \E p \in HProcs : Finish(p)

SpecURL == InitHTTP /\ [][NextURL]_vars

\* a server that answers every request with a redirect, for ever; time passes
RedirectAnswers == {a \in ServerAnswers : a.err = "none" /\ a.status \in RedirectStatuses /\ a.loc}

NextRedirect ==
    \/ \E p \in HProcs : GETFile(p, SomePaths)
    \/ \E p \in HProcs : PUTFile(p, SomePaths)
    \/ \E p \in HProcs : ClientHead(p, SomePaths)
    \/ \E p \in HProcs : LoopTimeout(p)
    \/ \E p \in HProcs : LoopDo(p, RedirectAnswers)
    \/ \E p \in HProcs : Finish(p)
    \/ Tick

SpecRedirect ==
    /\ InitHTTP
    /\ [][NextRedirect]_vars
    /\ SF_vars(Tick)
    /\ \A p \in HProcs : WF_vars(LoopTimeout(p))
    /\ \A p \in HProcs : WF_vars(LoopDo(p, RedirectAnswers))

\* a server that may leave a request without any answer; time passes
NextHang ==
    \/ \E p \in HProcs : GETFile(p, {<<"/">>})
    \/ \E p \in HProcs : PUTFile(p, {<<"/">>})
    \/ \E p \in HProcs : ClientHead(p, {<<"/">>})
    \/ \E p \in HProcs : LoopTimeout(p)
    \/ \E p \in HProcs : LoopDo(p, ServerAnswers)
    \/ \E p \in HProcs : LoopBlocked(p)
    \/ \E p \in HProcs : Finish(p)
    \/ Tick

\* the clock runs, and a call that can take its next step takes it
SpecHang ==
    /\ InitHTTP
    /\ [][NextHang]_vars
    /\ SF_vars(Tick)
    /\ \A p \in HProcs : WF_vars(LoopTimeout(p))
    /\ \A p \in HProcs : WF_vars(LoopDo(p, ServerAnswers))

\* two callers share one Client; time stands still, the server answers at once
SharedProcs == HProcs \cup {"h2"}

SharedAnswers ==
    {a \in ServerAnswers : a.err = "none" /\ (a.status \in {200, 404} \/ a.loc)}

InitShared ==
    /\ cl = NewHTTPClient
    /\ hc = [p \in SharedProcs |-> IdleCall]
    /\ now = 0
    /\ opt = DefaultOptions
    /\ files = {} /\ xc = [p \in XProcs |-> IdleX] /\ xlog = {} /\ nextId = 1
    /\ nc = [p \in NProcs |-> IdleNS] /\ mgmAcl = <<>>
    /\ AuxIdle

NextShared ==
    \/ \E p \in SharedProcs : GETFile(p, {<<"/">>})
    \/ \E p \in SharedProcs : PUTFile(p, {<<"/">>})
    \/ \E p \in SharedProcs : ClientHead(p, {<<"/">>})
    \/ \E p \in SharedProcs : LoopDo(p, SharedAnswers)
    \/ \E p \in SharedProcs : Finish(p)

SpecShared == InitShared /\ [][NextShared]_vars

InitCache ==
    /\ opt \in ClientOptions
    /\ files = {} /\ xc = [p \in XProcs |-> IdleX] /\ xlog = {} /\ nextId = 1
    /\ cl = NewHTTPClient /\ hc = [p \in HProcs |-> IdleCall] /\ now = 0
    /\ nc = [p \in NProcs |-> IdleNS] /\ mgmAcl = <<>>
    /\ AuxIdle

NextCache ==
    \/ \E p \in XProcs, u \in Usernames : Read(p, u)
    \/ \E p \in XProcs : ReadExecute(p)
    \/ \E id \in 1..MaxXCalls : CloseHandle(id)
    \/ \E p \in XProcs, u \in Usernames : Write(p, u)
    \/ \E p \in XProcs : WriteCopy(p)
    \/ \E p \in XProcs : WriteExecute(p)
    \/ \E p \in XProcs : FinishX(p)

SpecCache == InitCache /\ [][NextCache]_vars

\* every operation that runs a child process: xrdcopy and eos
NextExec ==
    \/ NextCache
    \/ \E p \in XProcs, op \in EosOps, u \in Usernames : EosCommand(p, op, u)
    \/ \E p \in XProcs : EosExecute(p)

SpecExec == InitCache /\ [][NextExec]_vars

InitNS ==
    /\ opt \in ClientOptions
    /\ nc = [p \in NProcs |-> IdleNS]
    /\ mgmAcl \in MgmRules
    /\ AuxIdle
    /\ cl = NewHTTPClient /\ hc = [p \in HProcs |-> IdleCall] /\ now = 0
    /\ files = {} /\ xc = [p \in XProcs |-> IdleX] /\ xlog = {} /\ nextId = 1

NextNS ==
    \/ \E p \in NProcs, u \in Usernames, path \in NSPaths : Touch(p, u, path)
    \/ \E p \in NProcs, u \in Usernames, path \in NSPaths : SetAttr(p, u, path)
    \/ \E p \in NProcs, u \in Usernames, path \in NSPaths : UnsetAttr(p, u, path)
    \/ \E p \in NProcs, u \in Usernames, path \in NSPaths : rm(p, u, path)
    \/ \E p \in NProcs, u \in Usernames, path \in NSPaths : rmdir(p, u, path)
    \/ \E p \in NProcs, u \in Usernames, o \in Usernames, path \in NSPaths : Chown(p, u, o, path)
    \/ \E p \in NProcs, u \in Usernames, m \in Modes, path \in NSPaths : Chmod(p, u, m, path)
    \/ \E p \in NProcs, u \in Usernames, path \in NSPaths : CreateDir(p, u, path)
    \/ \E p \in NProcs : ExecReturn(p)
    \/ \E p \in NProcs, u \in Usernames, path \in NSPaths : GetQuota(p, u, path)
    \/ \E p \in NProcs, u \in Usernames, old \in NSPaths, new \in NSPaths : Rename(p, u, old, new)
    \/ \E p \in NProcs, u \in Usernames, path \in NSPaths, a \in AclEntries : AddACL(p, u, path, a)
    \/ \E p \in NProcs, u \in Usernames, path \in NSPaths, a \in AclEntries :
          RemoveACL(p, u, path, a.Type, a.Qualifier)
    \/ \E p \in NProcs, u \in Usernames, path \in NSPaths : ListACLs(p, u, path)
    \/ \E p \in NProcs : ACLListReply(p)
    \/ \E p \in NProcs : ACLModifyReply(p)
    \/ \E p \in NProcs, u \in Usernames, path \in NSPaths : GetFileInfoByPath(p, u, path)
    \/ \E p \in NProcs, u \in Usernames : GetFileInfoByInode(p, u)
    \/ \E p \in NProcs, u \in Usernames, path \in NSPaths : Remove(p, u, path)
    \/ \E p \in NProcs : MDReturn(p)
    \/ \E p \in NProcs, u \in Usernames, path \in NSPaths : List(p, u, path)
    \/ \E p \in NProcs, u \in Usernames, path \in NSPaths : ListVersions(p, u, path)
    \/ \E p \in NProcs : ListRecv(p)
    \/ \E p \in NProcs : FinishNS(p)

SpecNS == InitNS /\ [][NextNS]_vars

\* two callers, one AddACL each on the same path of one MGM; each stays
\* with its result
RaceProcs == NProcs \cup {"n2"}

RacePath == <<"/", "eos">>

InitRace ==
    /\ opt = DefaultOptions
    /\ nc = [p \in RaceProcs |-> IdleNS]
    /\ mgmAcl \in MgmRules
    /\ AuxIdle
    /\ cl = NewHTTPClient /\ hc = [p \in HProcs |-> IdleCall] /\ now = 0
    /\ files = {} /\ xc = [p \in XProcs |-> IdleX] /\ xlog = {} /\ nextId = 1

NextRace ==
    \/ \E p \in RaceProcs, a \in AclEntries : AddACL(p, "alice", RacePath, a)
    \/ \E p \in RaceProcs : ACLListReply(p)
    \/ \E p \in RaceProcs : ACLModifyReply(p)

SpecRace == InitRace /\ [][NextRace]_vars

\* the construction of clients, one after the other
NextNew ==
    \/ \E o \in NewOptions : NewClient(o)
    \/ NewStep
    \/ NewDone

SpecNew == InitHTTP /\ [][NextNew]_vars

\* one Dispatcher, one call of DispatchAlerts after the other
NextAlerts ==
    \/ /\ disp.pc = "idle"
       /\ \E alerts \in SeqsUpTo(Alerts, MaxAlerts),
             accounts \in SeqsUpTo(Accounts, MaxAccounts) : DispatchAlerts(alerts, accounts)
    \/ NextAlert
    \/ NextAccount
    \/ dispatchAlert
    \/ DispatchReturned

SpecAlerts == InitHTTP /\ [][NextAlerts]_vars

\* the lines of a recycle listing, one after the other
NextRecycle ==
    \/ \E r \in RecycleRecords : ParseRecycleLine(r)
    \/ NextRecycleLine

SpecRecycle == InitHTTP /\ [][NextRecycle]_vars

\* the namespace operations under callers that may cancel
NextCancel ==
    \/ NextNS
    \/ \E p \in NProcs : Cancel(p)

SpecCancel == InitNS /\ [][NextCancel]_vars

(***************************************************************************)
(* The claims                                                              *)
(***************************************************************************)

(***************************************************************************)
(* C1. GETFile, PUTFile and Head reject, with PermissionDenied and before  *)
(* any request is sent, every url_path that holds "?eos.ruid=",            *)
(* "&eos.ruid=", "?eos.guid=" or "&eos.guid=" anywhere in it.              *)
(***************************************************************************)
C1_InjectionRejected ==
    \A p \in HProcs :
        (hc[p].pc # "idle" /\ ContainsInjection(hc[p].urlpath))
            => /\ hc[p].pc = "done"
               /\ hc[p].result.kind = "PermissionDenied"
               /\ ~hc[p].sent

(***************************************************************************)
(* C2. Against a server that redirects for ever, GETFile and PUTFile end   *)
(* with an error, and send no request once more than op_timeout_s seconds  *)
(* have gone by since the call started.                                    *)
(***************************************************************************)
Bulk(p) == hc[p].op \in {"GET", "PUT"}

C2_EndsWithError ==
    \A p \in HProcs : (Bulk(p) /\ hc[p].pc = "done") => hc[p].result # Success

C2_Terminates ==
    \A p \in HProcs : (Bulk(p) /\ hc[p].pc = "loop") ~> (hc[p].pc = "done")

\* the claim as stated: nothing is sent later than op_timeout_s seconds in
C2_NoSendAfterOpTimeout ==
    /\ C2_EndsWithError
    /\ \A p \in HProcs :
          (Bulk(p) /\ hc[p].sent) => hc[p].lastSendElapsed <= OpTimeout * TicksPerSec

\* amended: nothing is sent op_timeout_s + 1 seconds or more in; the call
\* returns, and with an error
C2_NoSendWithinASecondOfOpTimeout ==
    /\ [](C2_EndsWithError
          /\ \A p \in HProcs :
                (Bulk(p) /\ hc[p].sent)
                    => hc[p].lastSendElapsed < (OpTimeout + 1) * TicksPerSec)
    /\ C2_Terminates

\* a call that followed redirects until the deadline check stopped it
C2_Witness ==
    \E p \in HProcs :
        /\ Bulk(p) /\ hc[p].pc = "done"
        /\ hc[p].nredirs >= 2
        /\ hc[p].result = Err("Internal", "Timeout with url")
        /\ hc[p].lastSendElapsed > OpTimeout * TicksPerSec

(***************************************************************************)
(* C3. Once Read has returned and, where it returned a handle, the handle  *)
(* has been closed, no eosread-<uuid> file of that call is left in the     *)
(* cache directory.                                                        *)
(***************************************************************************)
C3_ReadLeavesNoCacheFile ==
    \A r \in xlog :
        (r.op = "Read" /\ r.state \in {"failed", "closed"})
            => CacheFile("eosread", r.id) \notin files

(***************************************************************************)
(* C4. A Write that created its eoswrite-<random> temporary file has       *)
(* removed it by the time it returns, whichever way it returns: stream     *)
(* copy error, xrdcopy failure, cancellation or success.                   *)
(***************************************************************************)
C4_WriteRemovesTempFile ==
    /\ \A r \in xlog : r.op = "Write" => CacheFile("eoswrite", r.id) \notin files
    /\ \A p \in XProcs :
          (xc[p].op = "Write" /\ xc[p].pc = "done" /\ xc[p].file # 0)
              => CacheFile("eoswrite", xc[p].file) \notin files

\* two Writes that had their temporary file have returned, one after the
\* stream copy failed and one after xrdcopy was killed or failed
C4_Witness ==
    /\ \E p \in XProcs :
          /\ xc[p].op = "Write" /\ xc[p].pc = "done" /\ xc[p].file # 0
          /\ xc[p].result = Err("Copy", "io")
    /\ \E p \in XProcs :
          /\ xc[p].op = "Write" /\ xc[p].pc = "done" /\ xc[p].file # 0
          /\ xc[p].result = Err("Exec", "eosclient: error while executing command")

(***************************************************************************)
(* C5. A List that returns successfully returns no FileInfo whose path is  *)
(* clean(p), whatever the backend streamed.                                *)
(***************************************************************************)
C5_ListFiltersParent ==
    \A p \in NProcs :
        (nc[p].op = "List" /\ nc[p].pc = "done" /\ nc[p].result = Success)
            => \A i \in 1..Len(nc[p].out) : nc[p].out[i].File # Clean(nc[p].path)

(***************************************************************************)
(* C6. Every request of a namespace operation carries the uid and the gid  *)
(* resolved for the username of the call and the configured authkey; a     *)
(* call whose username does not resolve returns an error and has issued    *)
(* no request. The operations are those that issue requests themselves     *)
(* (stat, list, touch, chown, chmod, mkdir, unlink, rmdir, xattr, ACL);    *)
(* what the ListVersions wrapper does with List's error is C18's matter.   *)
(***************************************************************************)
C6_RequestsCarryIdentity ==
    \A p \in NProcs :
        LET c == nc[p]
            unixUser == getUnixUser(opt, c.username)
        IN /\ \A i \in 1..Len(c.reqs) :
                 /\ unixUser.ok
                 /\ c.reqs[i].uid = ParseUint(unixUser.Uid).v
                 /\ c.reqs[i].gid = ParseUint(unixUser.Gid).v
                 /\ c.reqs[i].authkey = opt.Authkey
           /\ (c.pc # "idle" /\ c.op # "ListVersions" /\ ~unixUser.ok)
                 => /\ c.pc = "done"
                    /\ c.result.kind \notin {"nil", "none", "panic"}
                    /\ c.reqs = <<>>

\* alice's AddACL has sent its LIST and its MODIFY, both as 1001:100
C6_Witness ==
    \E p \in NProcs :
        /\ nc[p].op = "AddACL" /\ nc[p].username = "alice" /\ ~opt.ForceSingleUserMode
        /\ Len(nc[p].reqs) = 2
        /\ \A i \in 1..2 : nc[p].reqs[i].uid = 1001 /\ nc[p].reqs[i].gid = 100

(***************************************************************************)
(* C7. With force_single_user_mode set, whatever username an operation is  *)
(* given, the identity it looks up and puts in its requests (the owner of  *)
(* a chown included) is that of single_username.                           *)
(***************************************************************************)
C7_SingleUserIdentity ==
    opt.ForceSingleUserMode =>
        \A p \in NProcs : \A i \in 1..Len(nc[p].reqs) :
            LET single == Lookup(opt.SingleUsername)
                rq == nc[p].reqs[i]
            IN /\ single.ok
               /\ rq.uid = DecimalValue[single.Uid]
               /\ rq.gid = DecimalValue[single.Gid]
               /\ rq.cmd = "chown" => rq.num = DecimalValue[single.Uid]

\* in single-user mode alice asks for a chown to alice: the request goes out
\* as apache, owner apache
C7_Witness ==
    /\ opt.ForceSingleUserMode
    /\ \E p \in NProcs :
          /\ nc[p].op = "Chown" /\ nc[p].username = "alice" /\ nc[p].arg = "alice"
          /\ Len(nc[p].reqs) = 1
          /\ nc[p].reqs[1].uid = 48 /\ nc[p].reqs[1].num = 48

(***************************************************************************)
(* C8. An Exec operation whose response carries an error envelope with a   *)
(* non-zero code returns an error; it returns success only if there was no *)
(* transport error, the response was not nil and the code was zero.        *)
(***************************************************************************)
C8_ErrorEnvelopeIsAnError ==
    \A p \in NProcs : \A i \in 1..Len(nc[p].replies) :
        LET reply == nc[p].replies[i] IN
        /\ (reply.kind = "resp" /\ reply.error = "nonzero")
              => /\ nc[p].pc = "done"
                 /\ nc[p].result.kind \notin {"nil", "none"}
        /\ (nc[p].pc = "done" /\ nc[p].result = Success)
              => (reply.kind = "resp" /\ reply.error = "zero")

(***************************************************************************)
(* C9. An Exec operation that gets a nil response and no transport error   *)
(* returns an Internal error, and gets there without a nil dereference.    *)
(***************************************************************************)
C9_NilResponseIsInternal ==
    \A p \in NProcs : \A i \in 1..Len(nc[p].replies) :
        nc[p].replies[i].kind = "nil"
            => /\ nc[p].pc = "done"
               /\ nc[p].result.kind = "Internal"

(***************************************************************************)
(* C10. AddACL sends one ACL LIST and then, at most once, a MODIFY of type *)
(* SYS_ACL, recursive, whose rule is the serialization of the listed ACL   *)
(* with the given entry set (a user qualifier as that user's uid); it      *)
(* sends the MODIFY if and only if the LIST, the parse and the uid         *)
(* resolution went through.                                                *)
(***************************************************************************)
ListWentThrough(reply) == reply.kind = "resp" /\ reply.error # "nonzero" /\ reply.acl

C10_AddACLListThenModify ==
    \A p \in NProcs :
        nc[p].op = "AddACL" =>
        LET c == nc[p]
            n == Len(c.reqs)
            uid == IF c.a.Type = TypeUser THEN Lookup(c.a.Qualifier).Uid ELSE c.a.Qualifier
            uidOk == c.a.Type = TypeUser => Lookup(c.a.Qualifier).ok
        IN /\ n <= 2
           /\ n >= 1 => /\ c.reqs[1].rpc = "Exec" /\ c.reqs[1].cmd = "LIST"
                        /\ c.reqs[1].path = c.path
           /\ n = 2 =>
                LET listed == c.replies[1] IN
                /\ ListWentThrough(listed) /\ Parse(listed.rule).ok /\ uidOk
                /\ c.reqs[2].rpc = "Exec" /\ c.reqs[2].cmd = "MODIFY"
                /\ c.reqs[2].type = "SYS_ACL" /\ c.reqs[2].recursive
                /\ c.reqs[2].path = c.path
                /\ c.reqs[2].rule =
                      Serialize(SetEntry(Parse(listed.rule).Entries, c.a.Type, uid,
                                         c.a.Permissions))
           /\ (c.pc = "done" /\ c.result = Success) => n = 2

(***************************************************************************)
(* C11. Remove first sends a stat of the path. If the stat fails, Remove   *)
(* returns that error and sends no deletion. Otherwise it sends exactly    *)
(* one deletion: rmdir if the stat reported a directory, unlink if a file. *)
(***************************************************************************)
C11_RemoveStatsThenDeletes ==
    \A p \in NProcs :
        nc[p].op = "Remove" =>
        LET c == nc[p]
            n == Len(c.reqs)
        IN /\ n <= 2
           /\ n >= 1 => /\ c.reqs[1].rpc = "MD" /\ c.reqs[1].cmd = "STAT"
                        /\ c.reqs[1].path = c.path
           /\ n = 2 => /\ c.out # <<>>
                       /\ c.reqs[2].rpc = "Exec" /\ c.reqs[2].path = c.path
                       /\ c.reqs[2].cmd = IF c.out[1].IsDir THEN "rmdir" ELSE "unlink"
           /\ c.out # <<>> => n = 2
           /\ (c.pc = "done" /\ c.out = <<>>)
                 => n <= 1 /\ c.result.kind \notin {"nil", "none"}

\* a Remove whose stat reported a directory has sent its rmdir and returned
C11_Witness ==
    \E p \in NProcs :
        /\ nc[p].op = "Remove" /\ nc[p].pc = "done"
        /\ Len(nc[p].reqs) = 2 /\ nc[p].out[1].IsDir
        /\ nc[p].reqs[2].cmd = "rmdir"


(***************************************************************************)
(* C12: in GETFile and PUTFile a response with status 302 or 307 that      *)
(* names a Location is never reported to the caller as an error: the loop  *)
(* goes on with a request of the same method for the Location target       *)
(* (for PUT with the body stream attached) and the redirect counter has    *)
(* been incremented.                                                       *)
(***************************************************************************)
Redirected(c) ==
    /\ c.op \in {"GET", "PUT"}
    /\ c.last.err = "none" /\ c.last.status \in {302, 307} /\ c.last.loc

C12_RedirectIsFollowed ==
    \A p \in HProcs :
        Redirected(hc[p]) =>
            /\ hc[p].pc = "loop"
            /\ hc[p].result = NoResult
            /\ hc[p].req = Request(hc[p].op, "fst", hc[p].op = "PUT")
            /\ hc[p].cur = hc[p].req
            /\ hc[p].nredirs >= 1


(***************************************************************************)
(* C13: in GETFile and PUTFile a response with any 2xx status ends the     *)
(* call successfully, with no further request; a response becomes an error *)
(* only for a status that is neither 2xx nor a redirect: 403 becomes       *)
(* PermissionDenied, 404 NotFound, anything else Internal.                 *)
(***************************************************************************)
SuccessStatuses == {s \in Statuses : s \div 100 = 2}

C13_StatusMapping ==
    \A p \in HProcs :
        LET c == hc[p] IN
        (c.op \in {"GET", "PUT"} /\ c.last.err = "none") =>
            /\ c.last.status \in SuccessStatuses => c.pc = "done" /\ c.result = Success
            /\ c.last.status = 403 => c.pc = "done" /\ c.result.kind = "PermissionDenied"
            /\ c.last.status = 404 => c.pc = "done" /\ c.result.kind = "NotFound"
            /\ c.last.status \notin SuccessStatuses \cup RedirectStatuses \cup {403, 404}
                  => c.pc = "done" /\ c.result.kind = "Internal"


(***************************************************************************)
(* C14: Head returns success (a nil error) as soon as the server answers   *)
(* one of its requests with a 2xx status: the call is over with that       *)
(* response, so no further request follows it.                             *)
(***************************************************************************)
C14_HeadReturnsOnSuccess ==
    \A p \in HProcs :
        LET c == hc[p] IN
        (c.op = "HEAD" /\ c.last.err = "none" /\ c.last.status \in SuccessStatuses)
            => c.pc = "done" /\ c.result = Success


(***************************************************************************)
(* C15: after construction no operation writes a field of the Client:      *)
(* while a call is in its loop, about to read the shared HTTP client       *)
(* handle, no step of another call changes that handle.                    *)
(***************************************************************************)
C15_NoWriteOfSharedClient ==
    [][\A q \in SharedProcs :
          (hc[q].pc = "loop" /\ hc'[q] = hc[q]) => cl' = cl]_vars


(***************************************************************************)
(* C16: every gRPC call of a namespace operation is bound to the caller's  *)
(* context: once the caller has cancelled while a call was pending, that   *)
(* call is cancelled and the operation has returned the cancellation.      *)
(***************************************************************************)
C16_CancelEndsTheOperation ==
    \A p \in NProcs :
        nc[p].cancelled => /\ nc[p].pc = "done"
                           /\ nc[p].result = Err("Canceled", "rpc error")


(***************************************************************************)
(* C17: an HTTP attempt that never receives a response does not block      *)
(* GETFile, PUTFile or Head for ever, even under a context without         *)
(* deadline: the attempt is abandoned (by the per-attempt timeout or the   *)
(* operation timeout), and the call retries or returns.                    *)
(***************************************************************************)
C17_AttemptIsAbandoned ==
    \A p \in HProcs : (hc[p].pc = "blocked") ~> (hc[p].pc # "blocked")


(***************************************************************************)
(* C18: an operation returns an error whenever one of its steps failed (a  *)
(* backend request error, an identity or qualifier lookup error): it       *)
(* returns no success, no empty result and no result with entries left     *)
(* out. This includes ListVersions when the underlying list fails and      *)
(* ListACLs when a qualifier cannot be mapped.                             *)
(***************************************************************************)
C18_FailedStepIsAnError ==
    \A p \in NProcs :
        LET c == nc[p] IN
        c.pc = "done" =>
            /\ ~initNSRequest(opt, c.username).ok => c.result # Success
            /\ (\E i \in 1..Len(c.replies) : c.replies[i].kind = "err") => c.result # Success
            /\ (c.op = "ListVersions" /\ c.listErr # Success) => c.result # Success
            /\ (c.op = "ListACLs" /\ c.result = Success)
                  => Len(c.acls) = Len(Parse(c.replies[1].rule).Entries)


(***************************************************************************)
(* C19: for every child-process invocation, of xrdcopy (Read, Write) and   *)
(* of eos (recycle ls / restore / purge, file versions): exit code 0       *)
(* yields success, 2 a NotFound error, 22 a PermissionDenied error, and    *)
(* any other non-zero exit an error.                                       *)
(***************************************************************************)
C19_ExitCodeMapping ==
    \A p \in XProcs :
        xc[p].ran =>
            /\ xc[p].exit = 0 => xc[p].cmdErr = Success
            /\ xc[p].exit = 2 => xc[p].cmdErr.kind = "NotFound"
            /\ xc[p].exit = 22 => xc[p].cmdErr.kind = "PermissionDenied"
            /\ xc[p].exit # 0 => xc[p].cmdErr # Success


(***************************************************************************)
(* C20: for every metadata response converted to a FileInfo (stat by path, *)
(* stat by inode, each list entry): if the response carries a container    *)
(* metadata record, the FileInfo has IsDir = TRUE, whatever the other      *)
(* fields of the response are.                                             *)
(***************************************************************************)
C20_ContainerRecordIsDir ==
    \A p \in NProcs :
        (nc[p].out # <<>> /\ nc[p].st.hasCmd) => nc[p].out[Len(nc[p].out)].IsDir


(***************************************************************************)
(* C21: CreateDir for a resolvable user issues exactly one Mkdir request,  *)
(* with recursive = TRUE and a mode of 0, and returns success when the     *)
(* backend accepts it.                                                     *)
(***************************************************************************)
C21_CreateDirSendsMkdir ==
    \A p \in NProcs :
        LET c == nc[p] IN
        (c.op = "CreateDir" /\ initNSRequest(opt, c.username).ok) =>
            /\ Len(c.reqs) = 1
            /\ c.reqs[1].cmd = "mkdir" /\ c.reqs[1].recursive /\ c.reqs[1].num = 0
            /\ c.reqs[1].path = c.path
            /\ (c.pc = "done" /\ c.replies[1].kind = "resp" /\ c.replies[1].error = "zero")
                  => c.result = Success


(***************************************************************************)
(* C22: Rename and GetQuota fail, for every input, with an error that says *)
(* the operation is not implemented (errtypes.NotSupported), and issue no  *)
(* backend request.                                                        *)
(***************************************************************************)
C22_RenameAndQuotaUnimplemented ==
    \A p \in NProcs :
        nc[p].op \in {"Rename", "GetQuota"} =>
            /\ nc[p].pc = "done"
            /\ nc[p].result.kind = "NotSupported"
            /\ nc[p].reqs = <<>>


(***************************************************************************)
(* C23: the construction of the gRPC client fails if the Ping fails, and   *)
(* the Ping is its only readiness check: when the channel opened and the   *)
(* Ping succeeded, New returns a client, whatever came of any other        *)
(* backend request (stat, list, ACL list).                                 *)
(***************************************************************************)
Called(call, ok) ==
    \E i \in 1..Len(ctor.log) :
        ctor.log[i].call = call /\ (ctor.log[i].err = Success) = ok

C23_PingIsTheOnlyReadinessCheck ==
    ctor.pc = "done" =>
        /\ Called("Ping", FALSE) => ctor.result = "nil"
        /\ (Called("Dial", TRUE) /\ Called("Ping", TRUE)) => ctor.result = "client"

(***************************************************************************)
(* C24: after the option defaults are applied at construction,             *)
(* single_username is "apache" when none was configured and is the         *)
(* configured value when one was given: defaulting never overwrites a      *)
(* value the caller set.                                                   *)
(***************************************************************************)
C24_SingleUsernameDefault ==
    ctor.pc # "idle" =>
        opt.SingleUsername = IF ctor.configured.SingleUsername = "" THEN "apache"
                             ELSE ctor.configured.SingleUsername


(***************************************************************************)
(* C25: for every `recycle ls -m` line whose key=value fields are          *)
(* separated by single spaces, in the order recycle, recycle-bin, uid,     *)
(* gid, size, deletion-time, type, keylength.restore-path, restore-path,   *)
(* restore-key, and whose restore-path may hold spaces: the DeletedEntry   *)
(* has the whole path with its spaces as RestorePath, the value of the     *)
(* last token as RestoreKey, and IsDir exactly when type=recursive-dir.    *)
(***************************************************************************)
C25_RecycleEntryKeepsThePath ==
    (rl.pc = "done" /\ ~rl.rec.doubleSpace /\ rl.err = Success) =>
        /\ rl.entry.RestorePath = rl.rec.path
        /\ rl.entry.RestoreKey = <<rl.rec.key>>
        /\ rl.entry.IsDir = (rl.rec.type = "recursive-dir")



(***************************************************************************)
(* C26: in GETFile and PUTFile, once a redirect has been followed, every   *)
(* later re-send caused by a network timeout goes to the redirect target   *)
(* (the FST), never back to the original MGM URL.                          *)
(***************************************************************************)
RedirectFollowed(c) == c.op \in {"GET", "PUT"} /\ c.pc = "loop" /\ (c.nredirs >= 1 \/ c.hops >= 1)

C26_RetryGoesToTheRedirectTarget ==
    [][\A p \in HProcs :
          (/\ RedirectFollowed(hc[p])
           /\ hc'[p] # hc[p]
           /\ hc'[p].pc = "loop" /\ hc'[p].last.err = "timeout")
          => hc'[p].cur.target = "fst"]_vars



(***************************************************************************)
(* C28: in every state reachable by GETFile, PUTFile and Head calls on one *)
(* Client, the HTTP client handle used to send requests has the redirect   *)
(* policy installed at construction: never follow a redirect               *)
(* automatically, return the 3xx response to the operation's loop.         *)
(***************************************************************************)
C28_RedirectPolicyStaysInstalled == cl.checkRedirect


(***************************************************************************)
(* C29: whenever PUTFile returns success, the request that received the    *)
(* final success response carried the caller's stream as its body.         *)
(***************************************************************************)
C29_SuccessfulPutSentTheStream ==
    \A p \in HProcs :
        (hc[p].op = "PUT" /\ hc[p].pc = "done" /\ hc[p].result = Success) => hc[p].req.body



(***************************************************************************)
(* C27: for two concurrent AddACL calls on the same path that both         *)
(* succeed, under every interleaving of their LIST and MODIFY requests:    *)
(* the ACL stored at the MGM at the end equals the rule of the MODIFY the  *)
(* MGM processed last, so it contains the entry set by that call, and      *)
(* every entry in it was in the initial ACL or set by one of the two       *)
(* calls.                                                                  *)
(***************************************************************************)
BothReturned(ok(_)) ==
    \A p \in RaceProcs : nc[p].op = "AddACL" /\ nc[p].pc = "done" /\ ok(nc[p])

\* the entry a call sets, as it stands in a rule
SetBy(c) ==
    Entry(c.a.Type, IF c.a.Type = TypeUser THEN getUID(c.a.Qualifier).uid ELSE c.a.Qualifier,
          c.a.Permissions)

EntriesOf(rule) == LET e == Parse(rule).Entries IN {e[i] : i \in 1..Len(e)}

LastWriterWins ==
    LET last == CHOOSE p \in RaceProcs : nc[p].stamp = 2
        first == CHOOSE p \in RaceProcs : nc[p].stamp = 1
    IN /\ mgmAcl = nc[last].reqs[2].rule
       /\ SetBy(nc[last]) \in EntriesOf(mgmAcl)
       /\ EntriesOf(mgmAcl) \subseteq
             EntriesOf(nc[first].replies[1].rule) \cup {SetBy(nc[p]) : p \in RaceProcs}

C27_LastWriterWins ==
    BothReturned(LAMBDA c : c.result = Success) => LastWriterWins



(***************************************************************************)
(* C30: DispatchAlerts always returns success: for every alert that has a  *)
(* site_id label and every account whose site equals that site_id ignoring *)
(* case and whose ReceiveAlerts setting is on, exactly one dispatch is     *)
(* attempted, in alert order then account order, also after earlier        *)
(* dispatches failed; an alert without a site_id label causes no dispatch, *)
(* and an account that does not match or has ReceiveAlerts off is never    *)
(* sent anything.                                                          *)
(***************************************************************************)
\* the letters of a site name in lower case
LowerCase(s) == [k \in 1..Len(s) |-> IF s[k] = "C" THEN "c" ELSE IF s[k] = "E" THEN "e" ELSE s[k]]

\* the alert and the account of a dispatch that is due
Due(alerts, accounts, i, j) ==
    /\ i \in 1..Len(alerts) /\ j \in 1..Len(accounts)
    /\ alerts[i].hasSiteID
    /\ LowerCase(accounts[j].Site) = LowerCase(alerts[i].siteID)
    /\ accounts[j].ReceiveAlerts

\* alert order, then account order
Before(a, b) == a.alert < b.alert \/ (a.alert = b.alert /\ a.account < b.account)

C30_DispatchAlerts ==
    /\ disp.result \in {NoResult, Success}
    /\ \A k \in 1..Len(disp.sent) :
          Due(disp.alerts, disp.accounts, disp.sent[k].alert, disp.sent[k].account)
    /\ \A k \in 1..(Len(disp.sent) - 1) : Before(disp.sent[k], disp.sent[k + 1])
    /\ disp.pc = "done" =>
          /\ disp.result = Success
          /\ \A i \in 1..Len(disp.alerts), j \in 1..Len(disp.accounts) :
                Due(disp.alerts, disp.accounts, i, j) =>
                    \E k \in 1..Len(disp.sent) :
                        disp.sent[k].alert = i /\ disp.sent[k].account = j

\* a call has returned: its first dispatch failed, a later one went to an
\* account whose site differs from the site_id in case only, an alert had no
\* site_id, and an account was passed over
C30_Witness ==
    /\ disp.pc = "done" /\ disp.result = Success
    /\ Len(disp.sent) >= 2 /\ ~disp.sent[1].ok
    /\ \E k \in 2..Len(disp.sent) :
          disp.accounts[disp.sent[k].account].Site # disp.alerts[disp.sent[k].alert].siteID
    /\ \E i \in 1..Len(disp.alerts) : ~disp.alerts[i].hasSiteID
    /\ \E j \in 1..Len(disp.accounts) :
          \A k \in 1..Len(disp.sent) : disp.sent[k].account # j

====
